---------------------------- MODULE Spec2Model ----------------------------
(***************************************************************************)
(* Context_Bridge: idiom-aware translation.                                *)
(*                                                                         *)
(* The model covers playground_api.translate_text (the request handler),  *)
(* TranslationTester.translate (plain mode, script validation and the      *)
(* fallback retry), ContextualTranslator.translate_with_context            *)
(* (contextual mode) and IdiomDetector (pattern scan, context validation,  *)
(* segmentation).  The two neural models (the fine-tuned model and the     *)
(* base NLLB model) are the external capability: a call returns any text   *)
(* of ModelOutputs or raises.                                              *)
(*                                                                         *)
(* A text is a sequence of Unicode code points; offsets into a text are    *)
(* Python's (0-based, end exclusive).                                      *)
(***************************************************************************)
EXTENDS Integers, Sequences, FiniteSets, TLC

(***************************************************************************)
(* Characters: Python's str predicates on the code points the model uses   *)
(* (ASCII, Latin-1, the Devanagari block, the Telugu block).               *)
(***************************************************************************)

\* str.lower() of one character (only ASCII letters have case in the model's texts)
Lower(c) == IF c \in 65..90 THEN c + 32 ELSE c

\* str.isspace() / regex \s
IsSpace(c) == c \in (9..13) \cup (28..32) \cup {133, 160}

\* str.isalpha(): the letters (Unicode category L*); combining marks and digits are not
IsAlpha(c) ==
  \/ c \in (65..90) \cup (97..122)
  \/ c \in {170, 181, 186} \cup (192..214) \cup (216..246) \cup (248..255)
  \/ c \in (2308..2361) \cup {2365, 2384} \cup (2392..2401) \cup (2417..2431)
  \/ c \in (3077..3084) \cup (3086..3088) \cup (3090..3112) \cup (3114..3129)
           \cup {3133, 3165} \cup (3160..3162) \cup (3168..3169)

\* regex \w: alphanumeric or underscore
IsWord(c) ==
  \/ IsAlpha(c)
  \/ c \in (48..57) \cup {95} \cup (178..179) \cup {185} \cup (188..190)
  \/ c \in (2406..2415) \cup (3174..3183) \cup (3192..3198)

(***************************************************************************)
(* Strings                                                                 *)
(***************************************************************************)

\* s.lower()
LowerStr(s) == [i \in 1..Len(s) |-> Lower(s[i])]

\* the slice s[a:b] for 0 <= a, b (Python clamps b to len(s))
Slice(s, a, b) == SubSeq(s, a + 1, IF b > Len(s) THEN Len(s) ELSE b)

\* s.strip(): leading and trailing whitespace removed
Strip(s) ==
  LET keep == {i \in 1..Len(s) : ~IsSpace(s[i])}
  IN  IF keep = {} THEN <<>>
      ELSE SubSeq(s, CHOOSE i \in keep : \A j \in keep : i <= j,
                     CHOOSE i \in keep : \A j \in keep : j <= i)

\* needle in hay (substring test)
Contains(hay, needle) ==
  \E i \in 0..(Len(hay) - Len(needle)) : SubSeq(hay, i + 1, i + Len(needle)) = needle

\* s.split(): the maximal runs of non-whitespace characters, in order
RECURSIVE SplitFrom(_, _)
SplitFrom(s, i) ==
  IF i > Len(s) THEN <<>>
  ELSE IF IsSpace(s[i]) THEN SplitFrom(s, i + 1)
  ELSE LET stops == {j \in i..Len(s) : IsSpace(s[j])}
           e == IF stops = {} THEN Len(s) + 1 ELSE CHOOSE j \in stops : \A k \in stops : j <= k
       IN  <<SubSeq(s, i, e - 1)>> \o SplitFrom(s, e)

Split(s) == SplitFrom(s, 1)

\* ' '.join(words)
RECURSIVE JoinSpace(_)
JoinSpace(words) ==
  IF words = <<>> THEN <<>>
  ELSE IF Len(words) = 1 THEN words[1]
  ELSE words[1] \o <<32>> \o JoinSpace(Tail(words))

\* words[-n:] and words[:n]
LastN(words, n) == IF Len(words) <= n THEN words ELSE SubSeq(words, Len(words) - n + 1, Len(words))
FirstN(words, n) == IF Len(words) <= n THEN words ELSE SubSeq(words, 1, n)

(***************************************************************************)
(* Regular expressions: the subset of Python's re the catalogs use, under  *)
(* re.IGNORECASE.  A pattern is a sequence of nodes; matching a node at an *)
(* offset yields the offsets where the match may end, in the order the     *)
(* backtracking matcher tries them, so the first one is re's match.        *)
(***************************************************************************)

Str(s) == [k |-> "str", s |-> s]                                   \* literal text
Cls(cats, chars) == [k |-> "cls", cats |-> cats, chars |-> chars]  \* \s, \w, [..]
Rep(min, unbounded, r) == [k |-> "rep", min |-> min, unbounded |-> unbounded, r |-> r]  \* x? x+
Alt(rs) == [k |-> "alt", rs |-> rs]                                \* (?:a|b|c)
NotAhead(r) == [k |-> "not", r |-> r]                              \* (?!r)

WS == Rep(1, TRUE, <<Cls({"space"}, {})>>)                         \* \s+
NoWordAhead == NotAhead(<<WS, Cls({"word"}, {})>>)                 \* (?!\s+\w)

InClass(c, node) ==
  \/ "space" \in node.cats /\ IsSpace(c)
  \/ "word" \in node.cats /\ IsWord(c)
  \/ c \in node.chars

RECURSIVE MatchSeq(_, _, _, _)
RECURSIVE MatchNode(_, _, _)
RECURSIVE MatchEach(_, _, _, _, _)
RECURSIVE MatchAlts(_, _, _, _)
RECURSIVE MatchMore(_, _, _, _, _)

\* the nodes r[k..] matched from offset pos
MatchSeq(text, r, k, pos) ==
  IF k > Len(r) THEN <<pos>>
  ELSE MatchEach(text, r, k + 1, MatchNode(text, r[k], pos), 1)

\* r[k..] continued from each of the offsets ps[i..]
MatchEach(text, r, k, ps, i) ==
  IF i > Len(ps) THEN <<>>
  ELSE MatchSeq(text, r, k, ps[i]) \o MatchEach(text, r, k, ps, i + 1)

\* the alternatives rs[i..], first to last
MatchAlts(text, rs, i, pos) ==
  IF i > Len(rs) THEN <<>>
  ELSE MatchSeq(text, rs[i], 1, pos) \o MatchAlts(text, rs, i + 1, pos)

\* a greedy repetition continued from each of the offsets ps[i..]
MatchMore(text, node, pos, ps, i) ==
  IF i > Len(ps) THEN <<>>
  ELSE (IF node.unbounded /\ ps[i] > pos
          THEN MatchNode(text, Rep(0, TRUE, node.r), ps[i])
          ELSE <<ps[i]>>)
       \o MatchMore(text, node, pos, ps, i + 1)

MatchNode(text, node, pos) ==
  CASE node.k = "str" ->
         IF /\ pos + Len(node.s) <= Len(text)
            /\ LowerStr(SubSeq(text, pos + 1, pos + Len(node.s))) = node.s
           THEN <<pos + Len(node.s)>> ELSE <<>>
    [] node.k = "cls" ->
         IF pos < Len(text) /\ InClass(text[pos + 1], node) THEN <<pos + 1>> ELSE <<>>
    [] node.k = "alt" -> MatchAlts(text, node.rs, 1, pos)
    [] node.k = "not" -> IF MatchSeq(text, node.r, 1, pos) = <<>> THEN <<pos>> ELSE <<>>
    [] node.k = "rep" ->
         MatchMore(text, node, pos, MatchSeq(text, node.r, 1, pos), 1)
         \o (IF node.min = 0 THEN <<pos>> ELSE <<>>)

\* re.finditer(pattern, text, re.IGNORECASE) from offset i: the matches, left to right,
\* each search resuming where the previous match ended
RECURSIVE FindIter(_, _, _)
FindIter(text, r, i) ==
  IF i > Len(text) THEN <<>>
  ELSE LET ends == MatchSeq(text, r, 1, i)
       IN  IF ends = <<>> THEN FindIter(text, r, i + 1)
           ELSE <<[start |-> i, end |-> ends[1]]>>
                \o FindIter(text, r, IF ends[1] > i THEN ends[1] ELSE i + 1)

(***************************************************************************)
(* IdiomDetector: the pattern catalogs.  Each entry is one item of the     *)
(* source dict: the regular expression and the canonical form it maps to.  *)
(***************************************************************************)


\* self.english_idioms, in the dict's (insertion) order
english_idioms ==
  <<
    \* r"(?:break|breaking|broke|broken)\s+the\s+ice(?!\s+\w)": "break the ice"
    [re |-> <<Alt(<<<<Str(<<98, 114, 101, 97, 107>>)>>, <<Str(<<98, 114, 101, 97, 107, 105, 110,
       103>>)>>, <<Str(<<98, 114, 111, 107, 101>>)>>, <<Str(<<98, 114, 111, 107, 101,
       110>>)>>>>), WS, Str(<<116, 104, 101>>), WS, Str(<<105, 99, 101>>), NoWordAhead>>,
     idiom |-> <<98, 114, 101, 97, 107, 32, 116, 104, 101, 32, 105, 99, 101>>],
    \* r"(?:bite|biting|bit|bitten)\s+the\s+bullet(?!\s+\w)": "bite the bullet"
    [re |-> <<Alt(<<<<Str(<<98, 105, 116, 101>>)>>, <<Str(<<98, 105, 116, 105, 110, 103>>)>>,
       <<Str(<<98, 105, 116>>)>>, <<Str(<<98, 105, 116, 116, 101, 110>>)>>>>), WS,
       Str(<<116, 104, 101>>), WS, Str(<<98, 117, 108, 108, 101, 116>>), NoWordAhead>>,
     idiom |-> <<98, 105, 116, 101, 32, 116, 104, 101, 32, 98, 117, 108, 108, 101, 116>>],
    \* r"(?:spill|spilling|spilled|spilt)\s+the\s+beans(?!\s+\w)": "spill the beans"
    [re |-> <<Alt(<<<<Str(<<115, 112, 105, 108, 108>>)>>, <<Str(<<115, 112, 105, 108, 108, 105,
       110, 103>>)>>, <<Str(<<115, 112, 105, 108, 108, 101, 100>>)>>, <<Str(<<115, 112, 105,
       108, 116>>)>>>>), WS, Str(<<116, 104, 101>>), WS, Str(<<98, 101, 97, 110, 115>>),
       NoWordAhead>>,
     idiom |-> <<115, 112, 105, 108, 108, 32, 116, 104, 101, 32, 98, 101, 97, 110, 115>>],
    \* r"(?:hit|hitting|hits)\s+the\s+(?:nail\s+on\s+the\s+head|jackpot)": "hit the nail on the head"
    [re |-> <<Alt(<<<<Str(<<104, 105, 116>>)>>, <<Str(<<104, 105, 116, 116, 105, 110, 103>>)>>,
       <<Str(<<104, 105, 116, 115>>)>>>>), WS, Str(<<116, 104, 101>>), WS,
       Alt(<<<<Str(<<110, 97, 105, 108>>), WS, Str(<<111, 110>>), WS, Str(<<116, 104,
       101>>), WS, Str(<<104, 101, 97, 100>>)>>, <<Str(<<106, 97, 99, 107, 112, 111,
       116>>)>>>>)>>,
     idiom |-> <<104, 105, 116, 32, 116, 104, 101, 32, 110, 97, 105, 108, 32, 111, 110, 32, 116,
       104, 101, 32, 104, 101, 97, 100>>],
    \* r"(?:call|calling|called)\s+it\s+a\s+day(?!\s+\w)": "call it a day"
    [re |-> <<Alt(<<<<Str(<<99, 97, 108, 108>>)>>, <<Str(<<99, 97, 108, 108, 105, 110, 103>>)>>,
       <<Str(<<99, 97, 108, 108, 101, 100>>)>>>>), WS, Str(<<105, 116>>), WS, Str(<<97>>),
       WS, Str(<<100, 97, 121>>), NoWordAhead>>,
     idiom |-> <<99, 97, 108, 108, 32, 105, 116, 32, 97, 32, 100, 97, 121>>],
    \* r"(?:cut|cutting|cuts)\s+(?:corners|to\s+the\s+chase)": "cut corners"
    [re |-> <<Alt(<<<<Str(<<99, 117, 116>>)>>, <<Str(<<99, 117, 116, 116, 105, 110, 103>>)>>,
       <<Str(<<99, 117, 116, 115>>)>>>>), WS, Alt(<<<<Str(<<99, 111, 114, 110, 101, 114,
       115>>)>>, <<Str(<<116, 111>>), WS, Str(<<116, 104, 101>>), WS, Str(<<99, 104, 97,
       115, 101>>)>>>>)>>,
     idiom |-> <<99, 117, 116, 32, 99, 111, 114, 110, 101, 114, 115>>],
    \* r"(?:piece|pieces)\s+of\s+cake(?!\s+\w)": "piece of cake"
    [re |-> <<Alt(<<<<Str(<<112, 105, 101, 99, 101>>)>>, <<Str(<<112, 105, 101, 99, 101,
       115>>)>>>>), WS, Str(<<111, 102>>), WS, Str(<<99, 97, 107, 101>>), NoWordAhead>>,
     idiom |-> <<112, 105, 101, 99, 101, 32, 111, 102, 32, 99, 97, 107, 101>>],
    \* r"(?:cost|costs|costing)\s+an?\s+arm\s+and\s+a\s+leg(?!\s+\w)": "cost an arm and a leg"
    [re |-> <<Alt(<<<<Str(<<99, 111, 115, 116>>)>>, <<Str(<<99, 111, 115, 116, 115>>)>>,
       <<Str(<<99, 111, 115, 116, 105, 110, 103>>)>>>>), WS, Str(<<97>>), Rep(0, FALSE,
       <<Str(<<110>>)>>), WS, Str(<<97, 114, 109>>), WS, Str(<<97, 110, 100>>), WS,
       Str(<<97>>), WS, Str(<<108, 101, 103>>), NoWordAhead>>,
     idiom |-> <<99, 111, 115, 116, 32, 97, 110, 32, 97, 114, 109, 32, 97, 110, 100, 32, 97, 32,
       108, 101, 103>>],
    \* r"(?:beat|beating|beats)\s+around\s+the\s+bush(?!\s+\w)": "beat around the bush"
    [re |-> <<Alt(<<<<Str(<<98, 101, 97, 116>>)>>, <<Str(<<98, 101, 97, 116, 105, 110, 103>>)>>,
       <<Str(<<98, 101, 97, 116, 115>>)>>>>), WS, Str(<<97, 114, 111, 117, 110, 100>>), WS,
       Str(<<116, 104, 101>>), WS, Str(<<98, 117, 115, 104>>), NoWordAhead>>,
     idiom |-> <<98, 101, 97, 116, 32, 97, 114, 111, 117, 110, 100, 32, 116, 104, 101, 32, 98,
       117, 115, 104>>],
    \* r"out\s+of\s+the\s+blue(?!\s+\w)": "out of the blue"
    [re |-> <<Str(<<111, 117, 116>>), WS, Str(<<111, 102>>), WS, Str(<<116, 104, 101>>), WS,
       Str(<<98, 108, 117, 101>>), NoWordAhead>>,
     idiom |-> <<111, 117, 116, 32, 111, 102, 32, 116, 104, 101, 32, 98, 108, 117, 101>>],
    \* r"(?:once|one\s+time)\s+in\s+a\s+blue\s+moon(?!\s+\w)": "once in a blue moon"
    [re |-> <<Alt(<<<<Str(<<111, 110, 99, 101>>)>>, <<Str(<<111, 110, 101>>), WS, Str(<<116,
       105, 109, 101>>)>>>>), WS, Str(<<105, 110>>), WS, Str(<<97>>), WS, Str(<<98, 108,
       117, 101>>), WS, Str(<<109, 111, 111, 110>>), NoWordAhead>>,
     idiom |-> <<111, 110, 99, 101, 32, 105, 110, 32, 97, 32, 98, 108, 117, 101, 32, 109, 111,
       111, 110>>],
    \* r"(?:throw|throwing|threw|thrown)\s+in\s+the\s+towel(?!\s+\w)": "throw in the towel"
    [re |-> <<Alt(<<<<Str(<<116, 104, 114, 111, 119>>)>>, <<Str(<<116, 104, 114, 111, 119, 105,
       110, 103>>)>>, <<Str(<<116, 104, 114, 101, 119>>)>>, <<Str(<<116, 104, 114, 111, 119,
       110>>)>>>>), WS, Str(<<105, 110>>), WS, Str(<<116, 104, 101>>), WS, Str(<<116, 111,
       119, 101, 108>>), NoWordAhead>>,
     idiom |-> <<116, 104, 114, 111, 119, 32, 105, 110, 32, 116, 104, 101, 32, 116, 111, 119,
       101, 108>>],
    \* r"(?:let|letting)\s+the\s+cat\s+out\s+of\s+the\s+bag(?!\s+\w)": "let the cat out of the bag"
    [re |-> <<Alt(<<<<Str(<<108, 101, 116>>)>>, <<Str(<<108, 101, 116, 116, 105, 110,
       103>>)>>>>), WS, Str(<<116, 104, 101>>), WS, Str(<<99, 97, 116>>), WS, Str(<<111,
       117, 116>>), WS, Str(<<111, 102>>), WS, Str(<<116, 104, 101>>), WS, Str(<<98, 97,
       103>>), NoWordAhead>>,
     idiom |-> <<108, 101, 116, 32, 116, 104, 101, 32, 99, 97, 116, 32, 111, 117, 116, 32, 111,
       102, 32, 116, 104, 101, 32, 98, 97, 103>>],
    \* r"(?:cross|crossing|crossed)\s+that\s+bridge\s+when\s+(?:we|you|they)\s+(?:come|get)\s+to\s+it": "cross that bridge"
    [re |-> <<Alt(<<<<Str(<<99, 114, 111, 115, 115>>)>>, <<Str(<<99, 114, 111, 115, 115, 105,
       110, 103>>)>>, <<Str(<<99, 114, 111, 115, 115, 101, 100>>)>>>>), WS, Str(<<116, 104,
       97, 116>>), WS, Str(<<98, 114, 105, 100, 103, 101>>), WS, Str(<<119, 104, 101,
       110>>), WS, Alt(<<<<Str(<<119, 101>>)>>, <<Str(<<121, 111, 117>>)>>, <<Str(<<116,
       104, 101, 121>>)>>>>), WS, Alt(<<<<Str(<<99, 111, 109, 101>>)>>, <<Str(<<103, 101,
       116>>)>>>>), WS, Str(<<116, 111>>), WS, Str(<<105, 116>>)>>,
     idiom |-> <<99, 114, 111, 115, 115, 32, 116, 104, 97, 116, 32, 98, 114, 105, 100, 103,
       101>>],
    \* r"(?:hold|holding|held)\s+(?:your|my|their)\s+horses(?!\s+\w)": "hold your horses"
    [re |-> <<Alt(<<<<Str(<<104, 111, 108, 100>>)>>, <<Str(<<104, 111, 108, 100, 105, 110,
       103>>)>>, <<Str(<<104, 101, 108, 100>>)>>>>), WS, Alt(<<<<Str(<<121, 111, 117,
       114>>)>>, <<Str(<<109, 121>>)>>, <<Str(<<116, 104, 101, 105, 114>>)>>>>), WS,
       Str(<<104, 111, 114, 115, 101, 115>>), NoWordAhead>>,
     idiom |-> <<104, 111, 108, 100, 32, 121, 111, 117, 114, 32, 104, 111, 114, 115, 101, 115>>],
    \* r"(?:jump|jumping|jumped)\s+the\s+gun(?!\s+\w)": "jump the gun"
    [re |-> <<Alt(<<<<Str(<<106, 117, 109, 112>>)>>, <<Str(<<106, 117, 109, 112, 105, 110,
       103>>)>>, <<Str(<<106, 117, 109, 112, 101, 100>>)>>>>), WS, Str(<<116, 104, 101>>),
       WS, Str(<<103, 117, 110>>), NoWordAhead>>,
     idiom |-> <<106, 117, 109, 112, 32, 116, 104, 101, 32, 103, 117, 110>>],
    \* r"(?:miss|missing|missed)\s+the\s+boat(?!\s+\w)": "miss the boat"
    [re |-> <<Alt(<<<<Str(<<109, 105, 115, 115>>)>>, <<Str(<<109, 105, 115, 115, 105, 110,
       103>>)>>, <<Str(<<109, 105, 115, 115, 101, 100>>)>>>>), WS, Str(<<116, 104, 101>>),
       WS, Str(<<98, 111, 97, 116>>), NoWordAhead>>,
     idiom |-> <<109, 105, 115, 115, 32, 116, 104, 101, 32, 98, 111, 97, 116>>],
    \* r"(?:pull|pulling|pulled)\s+(?:someone's|your|my)\s+leg(?!\s+\w)": "pull someone's leg"
    [re |-> <<Alt(<<<<Str(<<112, 117, 108, 108>>)>>, <<Str(<<112, 117, 108, 108, 105, 110,
       103>>)>>, <<Str(<<112, 117, 108, 108, 101, 100>>)>>>>), WS, Alt(<<<<Str(<<115, 111,
       109, 101, 111, 110, 101, 39, 115>>)>>, <<Str(<<121, 111, 117, 114>>)>>, <<Str(<<109,
       121>>)>>>>), WS, Str(<<108, 101, 103>>), NoWordAhead>>,
     idiom |-> <<112, 117, 108, 108, 32, 115, 111, 109, 101, 111, 110, 101, 39, 115, 32, 108,
       101, 103>>],
    \* r"(?:under\s+the\s+weather|feeling\s+under\s+the\s+weather)": "under the weather"
    [re |-> <<Alt(<<<<Str(<<117, 110, 100, 101, 114>>), WS, Str(<<116, 104, 101>>), WS,
       Str(<<119, 101, 97, 116, 104, 101, 114>>)>>, <<Str(<<102, 101, 101, 108, 105, 110,
       103>>), WS, Str(<<117, 110, 100, 101, 114>>), WS, Str(<<116, 104, 101>>), WS,
       Str(<<119, 101, 97, 116, 104, 101, 114>>)>>>>)>>,
     idiom |-> <<117, 110, 100, 101, 114, 32, 116, 104, 101, 32, 119, 101, 97, 116, 104, 101,
       114>>],
    \* r"(?:the\s+ball\s+is\s+in\s+(?:your|my|their)\s+court)": "ball in your court"
    [re |-> <<Alt(<<<<Str(<<116, 104, 101>>), WS, Str(<<98, 97, 108, 108>>), WS, Str(<<105,
       115>>), WS, Str(<<105, 110>>), WS, Alt(<<<<Str(<<121, 111, 117, 114>>)>>,
       <<Str(<<109, 121>>)>>, <<Str(<<116, 104, 101, 105, 114>>)>>>>), WS, Str(<<99, 111,
       117, 114, 116>>)>>>>)>>,
     idiom |-> <<98, 97, 108, 108, 32, 105, 110, 32, 121, 111, 117, 114, 32, 99, 111, 117, 114,
       116>>],
    \* r"(?:a\s+)?blessing\s+in\s+disguise(?!\s+\w)": "blessing in disguise"
    [re |-> <<Rep(0, FALSE, <<Alt(<<<<Str(<<97>>), WS>>>>)>>), Str(<<98, 108, 101, 115, 115,
       105, 110, 103>>), WS, Str(<<105, 110>>), WS, Str(<<100, 105, 115, 103, 117, 105, 115,
       101>>), NoWordAhead>>,
     idiom |-> <<98, 108, 101, 115, 115, 105, 110, 103, 32, 105, 110, 32, 100, 105, 115, 103,
       117, 105, 115, 101>>],
    \* r"(?:don't|do\s+not)\s+(?:count|counting)\s+(?:your|my|their)\s+chickens\s+(?:before|until)\s+they\s+hatch": "don't count your chickens"
    [re |-> <<Alt(<<<<Str(<<100, 111, 110, 39, 116>>)>>, <<Str(<<100, 111>>), WS, Str(<<110,
       111, 116>>)>>>>), WS, Alt(<<<<Str(<<99, 111, 117, 110, 116>>)>>, <<Str(<<99, 111,
       117, 110, 116, 105, 110, 103>>)>>>>), WS, Alt(<<<<Str(<<121, 111, 117, 114>>)>>,
       <<Str(<<109, 121>>)>>, <<Str(<<116, 104, 101, 105, 114>>)>>>>), WS, Str(<<99, 104,
       105, 99, 107, 101, 110, 115>>), WS, Alt(<<<<Str(<<98, 101, 102, 111, 114, 101>>)>>,
       <<Str(<<117, 110, 116, 105, 108>>)>>>>), WS, Str(<<116, 104, 101, 121>>), WS,
       Str(<<104, 97, 116, 99, 104>>)>>,
     idiom |-> <<100, 111, 110, 39, 116, 32, 99, 111, 117, 110, 116, 32, 121, 111, 117, 114, 32,
       99, 104, 105, 99, 107, 101, 110, 115>>],
    \* r"(?:actions?\s+speaks?\s+louder\s+than\s+words?)": "actions speak louder than words"
    [re |-> <<Alt(<<<<Str(<<97, 99, 116, 105, 111, 110>>), Rep(0, FALSE, <<Str(<<115>>)>>), WS,
       Str(<<115, 112, 101, 97, 107>>), Rep(0, FALSE, <<Str(<<115>>)>>), WS, Str(<<108, 111,
       117, 100, 101, 114>>), WS, Str(<<116, 104, 97, 110>>), WS, Str(<<119, 111, 114,
       100>>), Rep(0, FALSE, <<Str(<<115>>)>>)>>>>)>>,
     idiom |-> <<97, 99, 116, 105, 111, 110, 115, 32, 115, 112, 101, 97, 107, 32, 108, 111, 117,
       100, 101, 114, 32, 116, 104, 97, 110, 32, 119, 111, 114, 100, 115>>],
    \* r"(?:a\s+)?bird\s+in\s+(?:the\s+)?hand\s+is\s+worth\s+two\s+in\s+the\s+bush": "a bird in the hand"
    [re |-> <<Rep(0, FALSE, <<Alt(<<<<Str(<<97>>), WS>>>>)>>), Str(<<98, 105, 114, 100>>), WS,
       Str(<<105, 110>>), WS, Rep(0, FALSE, <<Alt(<<<<Str(<<116, 104, 101>>), WS>>>>)>>),
       Str(<<104, 97, 110, 100>>), WS, Str(<<105, 115>>), WS, Str(<<119, 111, 114, 116,
       104>>), WS, Str(<<116, 119, 111>>), WS, Str(<<105, 110>>), WS, Str(<<116, 104,
       101>>), WS, Str(<<98, 117, 115, 104>>)>>,
     idiom |-> <<97, 32, 98, 105, 114, 100, 32, 105, 110, 32, 116, 104, 101, 32, 104, 97, 110,
       100>>],
    \* r"(?:where\s+there'?s\s+smoke,?\s+there'?s\s+fire)": "where there's smoke, there's fire"
    [re |-> <<Alt(<<<<Str(<<119, 104, 101, 114, 101>>), WS, Str(<<116, 104, 101, 114, 101>>),
       Rep(0, FALSE, <<Str(<<39>>)>>), Str(<<115>>), WS, Str(<<115, 109, 111, 107, 101>>),
       Rep(0, FALSE, <<Str(<<44>>)>>), WS, Str(<<116, 104, 101, 114, 101>>), Rep(0, FALSE,
       <<Str(<<39>>)>>), Str(<<115>>), WS, Str(<<102, 105, 114, 101>>)>>>>)>>,
     idiom |-> <<119, 104, 101, 114, 101, 32, 116, 104, 101, 114, 101, 39, 115, 32, 115, 109,
       111, 107, 101, 44, 32, 116, 104, 101, 114, 101, 39, 115, 32, 102, 105, 114, 101>>]
  >>

\* self.telugu_idioms
telugu_idioms ==
  <<
    \* r"\u0c15\u0c24\u0c3f\u0c15\u0c3f\u0c24\u0c47\s+\u0c05\u0c24\u0c15\u0c26\u0c41": "\u0c15\u0c24\u0c3f\u0c15\u0c3f\u0c24\u0c47 \u0c05\u0c24\u0c15\u0c26\u0c41"
    [re |-> <<Str(<<3093, 3108, 3135, 3093, 3135, 3108, 3143>>), WS, Str(<<3077, 3108, 3093,
       3110, 3137>>)>>,
     idiom |-> <<3093, 3108, 3135, 3093, 3135, 3108, 3143, 32, 3077, 3108, 3093, 3110, 3137>>],
    \* r"\u0c0e\u0c32\u0c41\u0c15\u0c15\u0c41\s+\u0c2a\u0c3f\u0c32\u0c4d\u0c32\u0c3f\s+\u0c38\u0c3e\u0c15\u0c4d\u0c37\u0c3f": "\u0c0e\u0c32\u0c41\u0c15\u0c15\u0c41 \u0c2a\u0c3f\u0c32\u0c4d\u0c32\u0c3f \u0c38\u0c3e\u0c15\u0c4d\u0c37\u0c3f"
    [re |-> <<Str(<<3086, 3122, 3137, 3093, 3093, 3137>>), WS, Str(<<3114, 3135, 3122, 3149,
       3122, 3135>>), WS, Str(<<3128, 3134, 3093, 3149, 3127, 3135>>)>>,
     idiom |-> <<3086, 3122, 3137, 3093, 3093, 3137, 32, 3114, 3135, 3122, 3149, 3122, 3135, 32,
       3128, 3134, 3093, 3149, 3127, 3135>>],
    \* r"\u0c09\u0c32\u0c4d\u0c32\u0c3f\s+\u0c2a\u0c26\u0c3f\s+\u0c24\u0c32\u0c4d\u0c32\u0c41\u0c32\s+\u0c2a\u0c46\u0c1f\u0c4d\u0c1f\u0c41": "\u0c09\u0c32\u0c4d\u0c32\u0c3f \u0c2a\u0c26\u0c3f \u0c24\u0c32\u0c4d\u0c32\u0c41\u0c32 \u0c2a\u0c46\u0c1f\u0c4d\u0c1f\u0c41"
    [re |-> <<Str(<<3081, 3122, 3149, 3122, 3135>>), WS, Str(<<3114, 3110, 3135>>), WS,
       Str(<<3108, 3122, 3149, 3122, 3137, 3122>>), WS, Str(<<3114, 3142, 3103, 3149, 3103,
       3137>>)>>,
     idiom |-> <<3081, 3122, 3149, 3122, 3135, 32, 3114, 3110, 3135, 32, 3108, 3122, 3149, 3122,
       3137, 3122, 32, 3114, 3142, 3103, 3149, 3103, 3137>>],
    \* r"\u0c05\u0c21\u0c35\u0c3f\s+\u0c15\u0c3e\u0c1a\u0c3f\u0c28\s+\u0c35\u0c46\u0c28\u0c4d\u0c28\u0c46\u0c32": "\u0c05\u0c21\u0c35\u0c3f \u0c15\u0c3e\u0c1a\u0c3f\u0c28 \u0c35\u0c46\u0c28\u0c4d\u0c28\u0c46\u0c32"
    [re |-> <<Str(<<3077, 3105, 3125, 3135>>), WS, Str(<<3093, 3134, 3098, 3135, 3112>>), WS,
       Str(<<3125, 3142, 3112, 3149, 3112, 3142, 3122>>)>>,
     idiom |-> <<3077, 3105, 3125, 3135, 32, 3093, 3134, 3098, 3135, 3112, 32, 3125, 3142, 3112,
       3149, 3112, 3142, 3122>>],
    \* r"\u0c2a\u0c48\u0c28\s+\u0c2a\u0c1f\u0c3e\u0c30\u0c02[,\s]+\u0c32\u0c4b\u0c28\s+\u0c32\u0c4a\u0c1f\u0c3e\u0c30\u0c02": "\u0c2a\u0c48\u0c28 \u0c2a\u0c1f\u0c3e\u0c30\u0c02, \u0c32\u0c4b\u0c28 \u0c32\u0c4a\u0c1f\u0c3e\u0c30\u0c02"
    [re |-> <<Str(<<3114, 3144, 3112>>), WS, Str(<<3114, 3103, 3134, 3120, 3074>>), Rep(1, TRUE,
       <<Cls({"space"}, {44})>>), Str(<<3122, 3147, 3112>>), WS, Str(<<3122, 3146, 3103,
       3134, 3120, 3074>>)>>,
     idiom |-> <<3114, 3144, 3112, 32, 3114, 3103, 3134, 3120, 3074, 44, 32, 3122, 3147, 3112,
       32, 3122, 3146, 3103, 3134, 3120, 3074>>]
  >>

\* self.hindi_idioms
hindi_idioms ==
  <<
    \* r"\u0905\u0902\u0927\u094b\u0902\s+\u092e\u0947\u0902\s+\u0915\u093e\u0928\u093e\s+\u0930\u093e\u091c\u093e": "\u0905\u0902\u0927\u094b\u0902 \u092e\u0947\u0902 \u0915\u093e\u0928\u093e \u0930\u093e\u091c\u093e"
    [re |-> <<Str(<<2309, 2306, 2343, 2379, 2306>>), WS, Str(<<2350, 2375, 2306>>), WS,
       Str(<<2325, 2366, 2344, 2366>>), WS, Str(<<2352, 2366, 2332, 2366>>)>>,
     idiom |-> <<2309, 2306, 2343, 2379, 2306, 32, 2350, 2375, 2306, 32, 2325, 2366, 2344, 2366,
       32, 2352, 2366, 2332, 2366>>],
    \* r"\u091c\u0948\u0938\u093e\s+\u0926\u0947\u0936\s+\u0935\u0948\u0938\u093e\s+\u092d\u0947\u0937": "\u091c\u0948\u0938\u093e \u0926\u0947\u0936 \u0935\u0948\u0938\u093e \u092d\u0947\u0937"
    [re |-> <<Str(<<2332, 2376, 2360, 2366>>), WS, Str(<<2342, 2375, 2358>>), WS, Str(<<2357,
       2376, 2360, 2366>>), WS, Str(<<2349, 2375, 2359>>)>>,
     idiom |-> <<2332, 2376, 2360, 2366, 32, 2342, 2375, 2358, 32, 2357, 2376, 2360, 2366, 32,
       2349, 2375, 2359>>],
    \* r"\u0918\u0930\s+\u0915\u0940\s+\u092e\u0941\u0930\u094d\u0917\u0940\s+\u0926\u093e\u0932\s+\u092c\u0930\u093e\u092c\u0930": "\u0918\u0930 \u0915\u0940 \u092e\u0941\u0930\u094d\u0917\u0940 \u0926\u093e\u0932 \u092c\u0930\u093e\u092c\u0930"
    [re |-> <<Str(<<2328, 2352>>), WS, Str(<<2325, 2368>>), WS, Str(<<2350, 2369, 2352, 2381,
       2327, 2368>>), WS, Str(<<2342, 2366, 2354>>), WS, Str(<<2348, 2352, 2366, 2348,
       2352>>)>>,
     idiom |-> <<2328, 2352, 32, 2325, 2368, 32, 2350, 2369, 2352, 2381, 2327, 2368, 32, 2342,
       2366, 2354, 32, 2348, 2352, 2366, 2348, 2352>>]
  >>

\* tub car house box bag shirt sky ocean water bottle container room building truck
blue_objects ==
  {<<116, 117, 98>>, <<99, 97, 114>>, <<104, 111, 117, 115, 101>>, <<98, 111, 120>>, <<98, 97,
   103>>, <<115, 104, 105, 114, 116>>, <<115, 107, 121>>, <<111, 99, 101, 97, 110>>, <<119,
   97, 116, 101, 114>>, <<98, 111, 116, 116, 108, 101>>, <<99, 111, 110, 116, 97, 105, 110,
   101, 114>>, <<114, 111, 111, 109>>, <<98, 117, 105, 108, 100, 105, 110, 103>>, <<116,
   114, 117, 99, 107>>}

\* chocolate vanilla birthday wedding frosting batter slice
cake_words ==
  {<<99, 104, 111, 99, 111, 108, 97, 116, 101>>, <<118, 97, 110, 105, 108, 108, 97>>, <<98,
   105, 114, 116, 104, 100, 97, 121>>, <<119, 101, 100, 100, 105, 110, 103>>, <<102, 114,
   111, 115, 116, 105, 110, 103>>, <<98, 97, 116, 116, 101, 114>>, <<115, 108, 105, 99,
   101>>}

\* frozen cold winter skating hockey cubes freezer
ice_words ==
  {<<102, 114, 111, 122, 101, 110>>, <<99, 111, 108, 100>>, <<119, 105, 110, 116, 101, 114>>,
   <<115, 107, 97, 116, 105, 110, 103>>, <<104, 111, 99, 107, 101, 121>>, <<99, 117, 98,
   101, 115>>, <<102, 114, 101, 101, 122, 101, 114>>}

\* "out of the blue"
idiom_out_of_the_blue == <<111, 117, 116, 32, 111, 102, 32, 116, 104, 101, 32, 98, 108, 117, 101>>

\* "piece of cake"
idiom_piece_of_cake == <<112, 105, 101, 99, 101, 32, 111, 102, 32, 99, 97, 107, 101>>

\* "break the ice"
idiom_break_the_ice == <<98, 114, 101, 97, 107, 32, 116, 104, 101, 32, 105, 99, 101>>

(***************************************************************************)
(* IdiomDetector                                                           *)
(***************************************************************************)

\* the context window: 10 words before and 10 words after the match
ContextWindow == 10

\* _validate_idiom_context as it would be without the [-10:] and [:10] of lines 76-77
_validate_idiom_context_whole_text(text, match, idiom) ==
  LET words_before == Split(Slice(text, 0, match.start))
      words_after == Split(Slice(text, match.end, Len(text)))
      context == LowerStr(JoinSpace(words_before \o words_after))
  IN  IF /\ idiom = idiom_out_of_the_blue
         /\ words_after # <<>>
         /\ LowerStr(words_after[1]) \in blue_objects
        THEN FALSE
      ELSE IF /\ idiom = idiom_piece_of_cake
              /\ words_after # <<>>
              /\ \E word \in cake_words : Contains(context, word)
        THEN FALSE
      ELSE IF /\ idiom = idiom_break_the_ice
              /\ \E word \in ice_words : Contains(context, word)
        THEN FALSE
      ELSE TRUE

\* IdiomDetector._validate_idiom_context(text, match, idiom); match = [start, end]
_validate_idiom_context(text, match, idiom) ==
  LET words_before == LastN(Split(Slice(text, 0, match.start)), ContextWindow)
      words_after == FirstN(Split(Slice(text, match.end, Len(text))), ContextWindow)
      context == LowerStr(JoinSpace(words_before \o words_after))
  IN  IF /\ idiom = idiom_out_of_the_blue
         /\ words_after # <<>>
         /\ LowerStr(words_after[1]) \in blue_objects
        THEN FALSE
      ELSE IF /\ idiom = idiom_piece_of_cake
              /\ words_after # <<>>
              /\ \E word \in cake_words : Contains(context, word)
        THEN FALSE
      ELSE IF /\ idiom = idiom_break_the_ice
              /\ \E word \in ice_words : Contains(context, word)
        THEN FALSE
      ELSE TRUE

VARIABLES
  detector,              \* the IdiomDetector instance: its three pattern catalogs
  contextual_translator  \* the ContextualTranslator instance: its idiom_translations

\* the two objects, which TranslationTester.load_model creates
catalogs == <<detector, contextual_translator>>

\* before load_model has run there is neither detector nor table
NoDetector == [english_idioms |-> <<>>, telugu_idioms |-> <<>>, hindi_idioms |-> <<>>]
NoContextualTranslator == [idiom_translations |-> {}]

\* IdiomDetector.__init__
NewDetector ==
  [english_idioms |-> english_idioms, telugu_idioms |-> telugu_idioms,
   hindi_idioms |-> hindi_idioms]

\* a detector that falls back to the English catalog for any other language code
PatternsFor_default_english(language) ==
  IF language = "tel_Telu" \/ language = "tel" THEN detector.telugu_idioms
  ELSE IF language = "hin_Deva" \/ language = "hin" THEN detector.hindi_idioms
  ELSE detector.english_idioms

\* the catalog detect_idioms selects for a language code (<<>>: no catalog, return [])
PatternsFor(language) ==
  IF language = "eng_Latn" \/ language = "eng" THEN detector.english_idioms
  ELSE IF language = "tel_Telu" \/ language = "tel" THEN detector.telugu_idioms
  ELSE IF language = "hin_Deva" \/ language = "hin" THEN detector.hindi_idioms
  ELSE <<>>

\* the matches ms[i..] of one pattern that pass the context validation, as spans
RECURSIVE AcceptedMatches(_, _, _, _)
AcceptedMatches(text, ms, i, canonical_form) ==
  IF i > Len(ms) THEN <<>>
  ELSE (IF _validate_idiom_context(text, ms[i], canonical_form)
          THEN <<[idiom |-> canonical_form, start |-> ms[i].start, end |-> ms[i].end,
                  original |-> Slice(text, ms[i].start, ms[i].end)]>>
          ELSE <<>>)
       \o AcceptedMatches(text, ms, i + 1, canonical_form)

\* the loop over patterns.items(): the spans found, in catalog order
RECURSIVE ScanPatterns(_, _, _)
ScanPatterns(text, patterns, i) ==
  IF i > Len(patterns) THEN <<>>
  ELSE AcceptedMatches(text, FindIter(text, patterns[i].re, 0), 1, patterns[i].idiom)
       \o ScanPatterns(text, patterns, i + 1)

\* list.sort(key=lambda x: x['start']): stable, ascending by start
RECURSIVE InsertByStart(_, _)
InsertByStart(sorted, x) ==
  IF sorted = <<>> THEN <<x>>
  ELSE IF sorted[Len(sorted)].start <= x.start THEN Append(sorted, x)
  ELSE Append(InsertByStart(SubSeq(sorted, 1, Len(sorted) - 1), x), sorted[Len(sorted)])

RECURSIVE SortByStart(_)
SortByStart(found) ==
  IF found = <<>> THEN <<>>
  ELSE InsertByStart(SortByStart(SubSeq(found, 1, Len(found) - 1)), found[Len(found)])

\* IdiomDetector.detect_idioms(text, language)
detect_idioms(text, language) ==
  SortByStart(ScanPatterns(text, PatternsFor(language), 1))

\* the loop of split_sentence_with_idioms over idioms[i..] with the cursor current_pos
RECURSIVE SplitLoop(_, _, _, _)
SplitLoop(text, idioms, i, current_pos) ==
  IF i > Len(idioms)
    THEN LET after_text == Strip(Slice(text, current_pos, Len(text)))
         IN  IF current_pos < Len(text) /\ after_text # <<>>
               THEN <<[type |-> "text", content |-> after_text]>>
               ELSE <<>>
    ELSE LET idiom == idioms[i]
             before_text == Strip(Slice(text, current_pos, idiom.start))
         IN  (IF current_pos < idiom.start /\ before_text # <<>>
                THEN <<[type |-> "text", content |-> before_text]>>
                ELSE <<>>)
             \o <<[type |-> "idiom", content |-> idiom.original, canonical |-> idiom.idiom]>>
             \o SplitLoop(text, idioms, i + 1, idiom.end)

\* a segmentation without the shortcut for an empty span list: the text is trimmed
split_sentence_with_idioms_trimmed(text, idioms) == SplitLoop(text, idioms, 1, 0)

\* a segmentation that returns nothing for a blank text without spans
split_sentence_with_idioms_dropping_blank(text, idioms) ==
  IF idioms = <<>>
    THEN IF Strip(text) = <<>> THEN <<>> ELSE <<[type |-> "text", content |-> text]>>
  ELSE SplitLoop(text, idioms, 1, 0)

\* a segmentation that starts at the first idiom and loses the text before it
split_sentence_with_idioms_from_first_idiom(text, idioms) ==
  IF idioms = <<>> THEN <<[type |-> "text", content |-> text]>>
  ELSE SplitLoop(text, idioms, 1, idioms[1].start)

\* a segmentation that keeps the text between spans as it is: no strip(), and a
\* whitespace-only gap becomes a segment
RECURSIVE SplitLoop_untrimmed(_, _, _, _)
SplitLoop_untrimmed(text, idioms, i, current_pos) ==
  IF i > Len(idioms)
    THEN IF current_pos < Len(text)
           THEN <<[type |-> "text", content |-> Slice(text, current_pos, Len(text))]>>
           ELSE <<>>
    ELSE LET idiom == idioms[i]
         IN  (IF current_pos < idiom.start
                THEN <<[type |-> "text", content |-> Slice(text, current_pos, idiom.start)]>>
                ELSE <<>>)
             \o <<[type |-> "idiom", content |-> idiom.original, canonical |-> idiom.idiom]>>
             \o SplitLoop_untrimmed(text, idioms, i + 1, idiom.end)
split_sentence_with_idioms_untrimmed(text, idioms) ==
  IF idioms = <<>> THEN <<[type |-> "text", content |-> text]>>
  ELSE SplitLoop_untrimmed(text, idioms, 1, 0)

\* IdiomDetector.split_sentence_with_idioms(text, idioms)
split_sentence_with_idioms(text, idioms) ==
  IF idioms = <<>> THEN <<[type |-> "text", content |-> text]>>
  ELSE SplitLoop(text, idioms, 1, 0)

(***************************************************************************)
(* TranslationTester: script detection and the language tables             *)
(***************************************************************************)

\* the Unicode blocks detect_script counts
InTelugu(c) == 3072 <= c /\ c <= 3199       \* 'ఀ' <= c <= '౿'
InDevanagari(c) == 2304 <= c /\ c <= 2431   \* 'ऀ' <= c <= 'ॿ'
IsLatin(c) == IsAlpha(c) /\ c < 128         \* c.isalpha() and ord(c) < 128

\* sum(1 for c in text if P(c)), for the four counts of detect_script
telugu_count(text) == Cardinality({i \in 1..Len(text) : InTelugu(text[i])})
hindi_count(text) == Cardinality({i \in 1..Len(text) : InDevanagari(text[i])})
latin_count(text) == Cardinality({i \in 1..Len(text) : IsLatin(text[i])})
\* a total that counts every character of the two blocks, letter or not
alpha_total_with_marks(text) ==
  Cardinality({i \in 1..Len(text) :
                 IsAlpha(text[i]) \/ InTelugu(text[i]) \/ InDevanagari(text[i])})
alpha_total(text) == Cardinality({i \in 1..Len(text) : IsAlpha(text[i])})

\* TranslationTester.detect_script(text); count / total > 0.5 is 2 * count > total
detect_script(text) ==
  IF text = <<>> THEN "Unknown"
  ELSE IF alpha_total(text) = 0 THEN "Unknown"
  ELSE IF 2 * telugu_count(text) > alpha_total(text) THEN "Telugu"
  ELSE IF 2 * hindi_count(text) > alpha_total(text) THEN "Devanagari"
  ELSE IF 2 * latin_count(text) > alpha_total(text) THEN "Latin"
  ELSE "Mixed"

\* str.lower() of a language code (the codes with capitals that the model uses)
LangLower(code) ==
  CASE code = "eng_Latn" -> "eng_latn"
    [] code = "hin_Deva" -> "hin_deva"
    [] code = "tel_Telu" -> "tel_telu"
    [] code = "deu_Latn" -> "deu_latn"
    [] code = "zho_Hans" -> "zho_hans"
    [] code = "ENG" -> "eng"
    [] OTHER -> code

\* script_map of get_expected_script: its keys and values
script_map ==
  [eng_Latn |-> "Latin", hin_Deva |-> "Devanagari", tel_Telu |-> "Telugu",
   eng |-> "Latin", hin |-> "Devanagari", tel |-> "Telugu",
   english |-> "Latin", hindi |-> "Devanagari", telugu |-> "Telugu"]

\* TranslationTester.get_expected_script(lang_code):
\* script_map.get(lang_code.lower(), 'Unknown')
get_expected_script(lang_code) ==
  IF LangLower(lang_code) \in DOMAIN script_map
    THEN script_map[LangLower(lang_code)]
    ELSE "Unknown"

\* lang_map of translate: the alias table
lang_map ==
  [eng |-> "eng_Latn", hin |-> "hin_Deva", tel |-> "tel_Telu",
   english |-> "eng_Latn", hindi |-> "hin_Deva", telugu |-> "tel_Telu"]

\* lang_map.get(lang.lower(), lang)
NormalizeLang(lang) ==
  IF LangLower(lang) \in DOMAIN lang_map THEN lang_map[LangLower(lang)] ELSE lang

\* a detected_source table with the Hindi and Telugu entries exchanged
DetectedSource_swapped(actual_script) ==
  IF actual_script = "Devanagari" THEN "tel_Telu"
  ELSE IF actual_script = "Telugu" THEN "hin_Deva"
  ELSE IF actual_script = "Latin" THEN "eng_Latn"
  ELSE "None"

\* detected_source of translate: the language a script implies ("None": no mapping)
DetectedSource(actual_script) ==
  IF actual_script = "Devanagari" THEN "hin_Deva"
  ELSE IF actual_script = "Telugu" THEN "tel_Telu"
  ELSE IF actual_script = "Latin" THEN "eng_Latn"
  ELSE "None"

\* a verdict without the test detected_source != target_lang
ScriptVerdict_ignoring_target(actual_script, expected_script, target_lang) ==
  IF actual_script = expected_script THEN "accept"
  ELSE IF DetectedSource(actual_script) # "None" THEN "fallback"
  ELSE "keep"

\* a translate without the fallback branch
ScriptVerdict_without_fallback(actual_script, expected_script, target_lang) ==
  IF actual_script = expected_script THEN "accept" ELSE "keep"

\* translate, after the first output is decoded: "accept" (return translation, False),
\* "fallback" (call fallback_translate) or "keep" (return translation, False)
ScriptVerdict(actual_script, expected_script, target_lang) ==
  IF actual_script = expected_script THEN "accept"
  ELSE IF DetectedSource(actual_script) # "None" /\ DetectedSource(actual_script) # target_lang
    THEN "fallback"
  ELSE "keep"

\* a translate that validates again when the fallback output has the wrong script
AfterFallback_revalidated(fallback_script, expected_script) ==
  IF fallback_script = expected_script THEN "return" ELSE "validate"

\* translate, after fallback_translate returned: both branches return the fallback
\* output with used_fallback = True; the fallback output is not validated again
AfterFallback(fallback_script, expected_script) ==
  IF fallback_script = expected_script THEN "return" ELSE "return"

(***************************************************************************)
(* playground_api                                                          *)
(***************************************************************************)

\* lang_mapping of map_frontend_to_backend_lang
lang_mapping ==
  [en |-> "eng_Latn", hi |-> "hin_Deva", te |-> "tel_Telu", zh |-> "zho_Hans",
   de |-> "deu_Latn", eng_Latn |-> "eng_Latn", hin_Deva |-> "hin_Deva",
   tel_Telu |-> "tel_Telu", zho_Hans |-> "zho_Hans", deu_Latn |-> "deu_Latn"]

\* map_frontend_to_backend_lang(lang_code): lang_mapping.get(lang_code, lang_code)
map_frontend_to_backend_lang(lang_code) ==
  IF lang_code \in DOMAIN lang_mapping THEN lang_mapping[lang_code] ELSE lang_code

(***************************************************************************)
(* ContextualTranslator                                                    *)
(***************************************************************************)

\* ContextualTranslator.idiom_translations: one record per
\* (source_lang, target_lang) -> canonical idiom -> curated translation
idiom_translations ==
  {
    \* (eng_Latn, tel_Telu) "piece of cake": "\u0c1a\u0c3e\u0c32\u0c3e \u0c38\u0c41\u0c32\u0c41\u0c35\u0c41"
    [src |-> "eng_Latn", tgt |-> "tel_Telu", idiom |-> <<112, 105, 101, 99, 101, 32, 111, 102,
       32, 99, 97, 107, 101>>,
     trans |-> <<3098, 3134, 3122, 3134, 32, 3128, 3137, 3122, 3137, 3125, 3137>>],
    \* (eng_Latn, tel_Telu) "out of the blue": "\u0c05\u0c28\u0c41\u0c15\u0c4b\u0c15\u0c41\u0c02\u0c21\u0c3e"
    [src |-> "eng_Latn", tgt |-> "tel_Telu", idiom |-> <<111, 117, 116, 32, 111, 102, 32, 116,
       104, 101, 32, 98, 108, 117, 101>>,
     trans |-> <<3077, 3112, 3137, 3093, 3147, 3093, 3137, 3074, 3105, 3134>>],
    \* (eng_Latn, tel_Telu) "break the ice": "\u0c2e\u0c3e\u0c1f\u0c4d\u0c32\u0c3e\u0c21\u0c1f\u0c02 \u0c2e\u0c4a\u0c26\u0c32\u0c41\u0c2a\u0c46\u0c1f\u0c4d\u0c1f\u0c21\u0c02"
    [src |-> "eng_Latn", tgt |-> "tel_Telu", idiom |-> <<98, 114, 101, 97, 107, 32, 116, 104,
       101, 32, 105, 99, 101>>,
     trans |-> <<3118, 3134, 3103, 3149, 3122, 3134, 3105, 3103, 3074, 32, 3118, 3146, 3110,
       3122, 3137, 3114, 3142, 3103, 3149, 3103, 3105, 3074>>],
    \* (eng_Latn, tel_Telu) "bite the bullet": "\u0c15\u0c37\u0c4d\u0c1f\u0c2e\u0c48\u0c28 \u0c2a\u0c28\u0c3f \u0c1a\u0c47\u0c2f\u0c21\u0c02"
    [src |-> "eng_Latn", tgt |-> "tel_Telu", idiom |-> <<98, 105, 116, 101, 32, 116, 104, 101,
       32, 98, 117, 108, 108, 101, 116>>,
     trans |-> <<3093, 3127, 3149, 3103, 3118, 3144, 3112, 32, 3114, 3112, 3135, 32, 3098, 3143,
       3119, 3105, 3074>>],
    \* (eng_Latn, tel_Telu) "spill the beans": "\u0c30\u0c39\u0c38\u0c4d\u0c2f\u0c02 \u0c1a\u0c46\u0c2a\u0c4d\u0c2a\u0c21\u0c02"
    [src |-> "eng_Latn", tgt |-> "tel_Telu", idiom |-> <<115, 112, 105, 108, 108, 32, 116, 104,
       101, 32, 98, 101, 97, 110, 115>>,
     trans |-> <<3120, 3129, 3128, 3149, 3119, 3074, 32, 3098, 3142, 3114, 3149, 3114, 3105,
       3074>>],
    \* (eng_Latn, tel_Telu) "call it a day": "\u0c2a\u0c28\u0c3f \u0c2e\u0c41\u0c17\u0c3f\u0c02\u0c1a\u0c21\u0c02"
    [src |-> "eng_Latn", tgt |-> "tel_Telu", idiom |-> <<99, 97, 108, 108, 32, 105, 116, 32, 97,
       32, 100, 97, 121>>,
     trans |-> <<3114, 3112, 3135, 32, 3118, 3137, 3095, 3135, 3074, 3098, 3105, 3074>>],
    \* (eng_Latn, tel_Telu) "hit the nail on the head": "\u0c38\u0c30\u0c3f\u0c17\u0c4d\u0c17\u0c3e \u0c1a\u0c46\u0c2a\u0c4d\u0c2a\u0c21\u0c02"
    [src |-> "eng_Latn", tgt |-> "tel_Telu", idiom |-> <<104, 105, 116, 32, 116, 104, 101, 32,
       110, 97, 105, 108, 32, 111, 110, 32, 116, 104, 101, 32, 104, 101, 97, 100>>,
     trans |-> <<3128, 3120, 3135, 3095, 3149, 3095, 3134, 32, 3098, 3142, 3114, 3149, 3114,
       3105, 3074>>],
    \* (eng_Latn, tel_Telu) "cost an arm and a leg": "\u0c1a\u0c3e\u0c32\u0c3e \u0c16\u0c30\u0c40\u0c26\u0c41"
    [src |-> "eng_Latn", tgt |-> "tel_Telu", idiom |-> <<99, 111, 115, 116, 32, 97, 110, 32, 97,
       114, 109, 32, 97, 110, 100, 32, 97, 32, 108, 101, 103>>,
     trans |-> <<3098, 3134, 3122, 3134, 32, 3094, 3120, 3136, 3110, 3137>>],
    \* (eng_Latn, tel_Telu) "once in a blue moon": "\u0c05\u0c30\u0c41\u0c26\u0c41\u0c17\u0c3e"
    [src |-> "eng_Latn", tgt |-> "tel_Telu", idiom |-> <<111, 110, 99, 101, 32, 105, 110, 32,
       97, 32, 98, 108, 117, 101, 32, 109, 111, 111, 110>>,
     trans |-> <<3077, 3120, 3137, 3110, 3137, 3095, 3134>>],
    \* (eng_Latn, tel_Telu) "throw in the towel": "\u0c35\u0c26\u0c41\u0c32\u0c41\u0c15\u0c4b\u0c35\u0c21\u0c02"
    [src |-> "eng_Latn", tgt |-> "tel_Telu", idiom |-> <<116, 104, 114, 111, 119, 32, 105, 110,
       32, 116, 104, 101, 32, 116, 111, 119, 101, 108>>,
     trans |-> <<3125, 3110, 3137, 3122, 3137, 3093, 3147, 3125, 3105, 3074>>],
    \* (eng_Latn, hin_Deva) "piece of cake": "\u092c\u0939\u0941\u0924 \u0906\u0938\u093e\u0928"
    [src |-> "eng_Latn", tgt |-> "hin_Deva", idiom |-> <<112, 105, 101, 99, 101, 32, 111, 102,
       32, 99, 97, 107, 101>>,
     trans |-> <<2348, 2361, 2369, 2340, 32, 2310, 2360, 2366, 2344>>],
    \* (eng_Latn, hin_Deva) "out of the blue": "\u0905\u091a\u093e\u0928\u0915 \u0938\u0947"
    [src |-> "eng_Latn", tgt |-> "hin_Deva", idiom |-> <<111, 117, 116, 32, 111, 102, 32, 116,
       104, 101, 32, 98, 108, 117, 101>>,
     trans |-> <<2309, 2330, 2366, 2344, 2325, 32, 2360, 2375>>],
    \* (eng_Latn, hin_Deva) "break the ice": "\u092c\u093e\u0924\u091a\u0940\u0924 \u0936\u0941\u0930\u0942 \u0915\u0930\u0928\u093e"
    [src |-> "eng_Latn", tgt |-> "hin_Deva", idiom |-> <<98, 114, 101, 97, 107, 32, 116, 104,
       101, 32, 105, 99, 101>>,
     trans |-> <<2348, 2366, 2340, 2330, 2368, 2340, 32, 2358, 2369, 2352, 2370, 32, 2325, 2352,
       2344, 2366>>],
    \* (eng_Latn, hin_Deva) "bite the bullet": "\u0915\u0920\u093f\u0928 \u0915\u093e\u092e \u0915\u0930\u0928\u093e"
    [src |-> "eng_Latn", tgt |-> "hin_Deva", idiom |-> <<98, 105, 116, 101, 32, 116, 104, 101,
       32, 98, 117, 108, 108, 101, 116>>,
     trans |-> <<2325, 2336, 2367, 2344, 32, 2325, 2366, 2350, 32, 2325, 2352, 2344, 2366>>],
    \* (eng_Latn, hin_Deva) "spill the beans": "\u0930\u093e\u091c\u093c \u0916\u094b\u0932\u0928\u093e"
    [src |-> "eng_Latn", tgt |-> "hin_Deva", idiom |-> <<115, 112, 105, 108, 108, 32, 116, 104,
       101, 32, 98, 101, 97, 110, 115>>,
     trans |-> <<2352, 2366, 2332, 2364, 32, 2326, 2379, 2354, 2344, 2366>>],
    \* (eng_Latn, hin_Deva) "call it a day": "\u0915\u093e\u092e \u0916\u0924\u094d\u092e \u0915\u0930\u0928\u093e"
    [src |-> "eng_Latn", tgt |-> "hin_Deva", idiom |-> <<99, 97, 108, 108, 32, 105, 116, 32, 97,
       32, 100, 97, 121>>,
     trans |-> <<2325, 2366, 2350, 32, 2326, 2340, 2381, 2350, 32, 2325, 2352, 2344, 2366>>],
    \* (eng_Latn, hin_Deva) "hit the nail on the head": "\u092c\u093f\u0932\u0915\u0941\u0932 \u0938\u0939\u0940 \u0915\u0939\u0928\u093e"
    [src |-> "eng_Latn", tgt |-> "hin_Deva", idiom |-> <<104, 105, 116, 32, 116, 104, 101, 32,
       110, 97, 105, 108, 32, 111, 110, 32, 116, 104, 101, 32, 104, 101, 97, 100>>,
     trans |-> <<2348, 2367, 2354, 2325, 2369, 2354, 32, 2360, 2361, 2368, 32, 2325, 2361, 2344,
       2366>>],
    \* (eng_Latn, hin_Deva) "cost an arm and a leg": "\u092c\u0939\u0941\u0924 \u092e\u0939\u0902\u0917\u093e"
    [src |-> "eng_Latn", tgt |-> "hin_Deva", idiom |-> <<99, 111, 115, 116, 32, 97, 110, 32, 97,
       114, 109, 32, 97, 110, 100, 32, 97, 32, 108, 101, 103>>,
     trans |-> <<2348, 2361, 2369, 2340, 32, 2350, 2361, 2306, 2327, 2366>>],
    \* (eng_Latn, hin_Deva) "once in a blue moon": "\u0915\u092d\u0940 \u0915\u092d\u093e\u0930"
    [src |-> "eng_Latn", tgt |-> "hin_Deva", idiom |-> <<111, 110, 99, 101, 32, 105, 110, 32,
       97, 32, 98, 108, 117, 101, 32, 109, 111, 111, 110>>,
     trans |-> <<2325, 2349, 2368, 32, 2325, 2349, 2366, 2352>>],
    \* (eng_Latn, hin_Deva) "throw in the towel": "\u0939\u093e\u0930 \u092e\u093e\u0928 \u0932\u0947\u0928\u093e"
    [src |-> "eng_Latn", tgt |-> "hin_Deva", idiom |-> <<116, 104, 114, 111, 119, 32, 105, 110,
       32, 116, 104, 101, 32, 116, 111, 119, 101, 108>>,
     trans |-> <<2361, 2366, 2352, 32, 2350, 2366, 2344, 32, 2354, 2375, 2344, 2366>>],
    \* (tel_Telu, eng_Latn) "\u0c15\u0c24\u0c3f\u0c15\u0c3f\u0c24\u0c47 \u0c05\u0c24\u0c15\u0c26\u0c41": "if you stir it, it won't stick"
    [src |-> "tel_Telu", tgt |-> "eng_Latn", idiom |-> <<3093, 3108, 3135, 3093, 3135, 3108,
       3143, 32, 3077, 3108, 3093, 3110, 3137>>,
     trans |-> <<105, 102, 32, 121, 111, 117, 32, 115, 116, 105, 114, 32, 105, 116, 44, 32, 105,
       116, 32, 119, 111, 110, 39, 116, 32, 115, 116, 105, 99, 107>>],
    \* (tel_Telu, eng_Latn) "\u0c0e\u0c32\u0c41\u0c15\u0c15\u0c41 \u0c2a\u0c3f\u0c32\u0c4d\u0c32\u0c3f \u0c38\u0c3e\u0c15\u0c4d\u0c37\u0c3f": "cat as witness for the mouse"
    [src |-> "tel_Telu", tgt |-> "eng_Latn", idiom |-> <<3086, 3122, 3137, 3093, 3093, 3137, 32,
       3114, 3135, 3122, 3149, 3122, 3135, 32, 3128, 3134, 3093, 3149, 3127, 3135>>,
     trans |-> <<99, 97, 116, 32, 97, 115, 32, 119, 105, 116, 110, 101, 115, 115, 32, 102, 111,
       114, 32, 116, 104, 101, 32, 109, 111, 117, 115, 101>>],
    \* (hin_Deva, eng_Latn) "\u0905\u0902\u0927\u094b\u0902 \u092e\u0947\u0902 \u0915\u093e\u0928\u093e \u0930\u093e\u091c\u093e": "in the land of the blind, the one-eyed man is king"
    [src |-> "hin_Deva", tgt |-> "eng_Latn", idiom |-> <<2309, 2306, 2343, 2379, 2306, 32, 2350,
       2375, 2306, 32, 2325, 2366, 2344, 2366, 32, 2352, 2366, 2332, 2366>>,
     trans |-> <<105, 110, 32, 116, 104, 101, 32, 108, 97, 110, 100, 32, 111, 102, 32, 116, 104,
       101, 32, 98, 108, 105, 110, 100, 44, 32, 116, 104, 101, 32, 111, 110, 101, 45, 101,
       121, 101, 100, 32, 109, 97, 110, 32, 105, 115, 32, 107, 105, 110, 103>>],
    \* (hin_Deva, eng_Latn) "\u091c\u0948\u0938\u093e \u0926\u0947\u0936 \u0935\u0948\u0938\u093e \u092d\u0947\u0937": "when in Rome, do as the Romans do"
    [src |-> "hin_Deva", tgt |-> "eng_Latn", idiom |-> <<2332, 2376, 2360, 2366, 32, 2342, 2375,
       2358, 32, 2357, 2376, 2360, 2366, 32, 2349, 2375, 2359>>,
     trans |-> <<119, 104, 101, 110, 32, 105, 110, 32, 82, 111, 109, 101, 44, 32, 100, 111, 32,
       97, 115, 32, 116, 104, 101, 32, 82, 111, 109, 97, 110, 115, 32, 100, 111>>]
  }

\* a dispatcher that never consults the curated table
HasCurated_never(source_lang, target_lang, canonical_idiom) == FALSE

\* ContextualTranslator.__init__
NewContextualTranslator == [idiom_translations |-> idiom_translations]

\* idiom_key in self.idiom_translations and
\* canonical_idiom in self.idiom_translations[idiom_key]
HasCurated(source_lang, target_lang, canonical_idiom) ==
  \E e \in contextual_translator.idiom_translations :
    e.src = source_lang /\ e.tgt = target_lang /\ e.idiom = canonical_idiom

\* self.idiom_translations[idiom_key][canonical_idiom]
CuratedTranslation(source_lang, target_lang, canonical_idiom) ==
  (CHOOSE e \in contextual_translator.idiom_translations :
     e.src = source_lang /\ e.tgt = target_lang /\ e.idiom = canonical_idiom).trans

\* a dispatcher that hands the matched substring of an idiom part to translate
PartSourceText_literal(part) == part.content

\* the text translate_with_context hands to translator.translate for a part
PartSourceText(part) ==
  IF part.type = "text" THEN part.content ELSE part.canonical

\* '.,!?;:'
Punctuation == {46, 44, 33, 63, 59, 58}

\* the loop of _join_parts_intelligently over parts[i..]; part[0] of an empty part
\* raises IndexError (ok = FALSE)
RECURSIVE JoinLoop(_, _, _, _)
JoinLoop(parts, i, result, target_lang) ==
  IF i > Len(parts) THEN [ok |-> TRUE, value |-> Strip(result)]
  ELSE LET part == parts[i]
       IN  IF target_lang = "eng_Latn" \/ target_lang = "eng"
             THEN IF result # <<>> /\ result[Len(result)] \notin Punctuation
                    THEN IF part = <<>> THEN [ok |-> FALSE, value |-> <<>>]
                         ELSE IF part[1] \notin Punctuation
                           THEN JoinLoop(parts, i + 1, result \o <<32>> \o part, target_lang)
                         ELSE JoinLoop(parts, i + 1, result \o part, target_lang)
                  ELSE JoinLoop(parts, i + 1, result \o part, target_lang)
           ELSE IF result # <<>> /\ part # <<>>
             THEN JoinLoop(parts, i + 1, result \o <<32>> \o part, target_lang)
           ELSE JoinLoop(parts, i + 1, result \o part, target_lang)

\* a join of all parts, the empty ones too, with ' '.join
_join_parts_plainly(parts, target_lang) ==
  IF target_lang = "eng_Latn" \/ target_lang = "eng"
    THEN IF parts = <<>> THEN [ok |-> TRUE, value |-> <<>>]
         ELSE JoinLoop(parts, 2, parts[1], target_lang)
  ELSE [ok |-> TRUE, value |-> Strip(JoinSpace(parts))]

\* ContextualTranslator._join_parts_intelligently(parts, target_lang)
_join_parts_intelligently(parts, target_lang) ==
  IF parts = <<>> THEN [ok |-> TRUE, value |-> <<>>]
  ELSE JoinLoop(parts, 2, parts[1], target_lang)

(***************************************************************************)
(* The inputs: the requests posted to /api/translate and the texts the     *)
(* neural models may return.                                               *)
(***************************************************************************)

Request(text, source_lang, target_lang, use_contextual) ==
  [text |-> text, source_lang |-> source_lang, target_lang |-> target_lang,
   use_contextual |-> use_contextual]

\* the requests of the sequential specification
Requests ==
  {
    \* "hello" en -> hi: plain, frontend codes
    Request(<<104, 101, 108, 108, 111>>, "en", "hi", FALSE),
    \* "hello" eng_Latn -> de: plain, a target (deu_Latn) that script_map does not list
    Request(<<104, 101, 108, 108, 111>>, "eng_Latn", "de", FALSE),
    \* "hello" en -> xx: plain, a target code no table lists
    Request(<<104, 101, 108, 108, 111>>, "en", "xx", FALSE),
    \* "  " en -> hi: whitespace only: rejected with 400
    Request(<<32, 32>>, "en", "hi", FALSE),
    \* "hello" "" -> hi: no source language: rejected with 400
    Request(<<104, 101, 108, 108, 111>>, "", "hi", FALSE),
    \* "hello" en -> hi: contextual, no idiom in the text
    Request(<<104, 101, 108, 108, 111>>, "en", "hi", TRUE),
    \* "It was a piece of cake" en -> hi: contextual: a text part and a curated idiom
    Request(<<73, 116, 32, 119, 97, 115, 32, 97, 32, 112, 105, 101, 99, 101, 32, 111,
        102, 32, 99, 97, 107, 101>>, "en", "hi", TRUE),
    \* "It was a piece of cake" eng -> hin: contextual, alias codes
    Request(<<73, 116, 32, 119, 97, 115, 32, 97, 32, 112, 105, 101, 99, 101, 32, 111,
        102, 32, 99, 97, 107, 101>>, "eng", "hin", TRUE),
    \* "piece of cake" eng -> hin: contextual, alias codes, the idiom alone
    Request(<<112, 105, 101, 99, 101, 32, 111, 102, 32, 99, 97, 107, 101>>, "eng", "hin", TRUE),
    \* "Breaking the ice" de -> en: contextual, a source language without catalog
    Request(<<66, 114, 101, 97, 107, 105, 110, 103, 32, 116, 104, 101, 32, 105, 99,
        101>>, "de", "en", TRUE),
    \* "Breaking the ice" eng_Latn -> de: contextual: the match differs from the canonical form, no curated table for the pair
    Request(<<66, 114, 101, 97, 107, 105, 110, 103, 32, 116, 104, 101, 32, 105, 99,
        101>>, "eng_Latn", "de", TRUE),
    \* "cut cornerspill the beans" en -> hi: contextual: two patterns match overlapping regions
    Request(<<99, 117, 116, 32, 99, 111, 114, 110, 101, 114, 115, 112, 105, 108, 108,
        32, 116, 104, 101, 32, 98, 101, 97, 110, 115>>, "en", "hi", TRUE),
    \* "\u091c\u0948\u0938\u093e \u0926\u0947\u0936 \u0935\u0948\u0938\u093e \u092d\u0947\u0937 \u0939\u0948" hi -> en: contextual, Hindi to English: a curated idiom and a text part
    Request(<<2332, 2376, 2360, 2366, 32, 2342, 2375, 2358, 32, 2357, 2376, 2360, 2366,
        32, 2349, 2375, 2359, 32, 2361, 2376>>, "hi", "en", TRUE)
  }

\* the plain-mode requests of the concurrent specification
ConcurrentRequests ==
  {
    \* "hello" en -> hi
    Request(<<104, 101, 108, 108, 111>>, "en", "hi", FALSE),
    \* "\u0928\u092e\u0938\u094d\u0924\u0947" hi -> en
    Request(<<2344, 2350, 2360, 2381, 2340, 2375>>, "hi", "en", FALSE)
  }

\* what model.generate + tokenizer.decode(...).strip() may return
ModelOutputs ==
  {
    <<111, 107>>,   \* "ok": Latin
    <<2336, 2368, 2325>>,   \* "\u0920\u0940\u0915": Devanagari
    <<3128, 3120, 3143>>,   \* "\u0c38\u0c30\u0c47": Telugu
    <<97, 2325>>,   \* "a\u0915": Mixed: one Latin and one Devanagari letter
    <<>>   \* "": the empty string (Unknown)
  }

(***************************************************************************)
(* The state                                                               *)
(***************************************************************************)

\* the worker threads of the concurrent specification (Flask serves each request on
\* a thread of its own); the sequential specification uses the first alone
Workers == {1, 2}
SequentialWorkers == {1}

\* the connections that run transactions on the database at the same time
Connections == {1, 2}

\* after create_idiom_tables: one language's idiom table (rows of id, idiom, meaning,
\* username) without rows, its idiom_statistics row with total_count 0, the SERIAL
\* sequence of the table at 1; stats_lock is the connection that holds the row lock
\* of the statistics row (0: none)
NewDatabase == [rows |-> {}, total_count |-> 0, next_id |-> 1, stats_lock |-> 0]

NoOutcome == [success |-> FALSE, id |-> 0]

\* a connection without transaction
IdleTxn ==
  [pc |-> "idle", op |-> "none", idiom |-> "", meaning |-> "", username |-> "", id |-> 0,
   writes |-> {}, deletes |-> {}, conflict |-> FALSE, count |-> 0,
   outcome |-> NoOutcome]

VARIABLES
  tester,              \* playground_api.tester: "None" or "loaded"
  tokenizer_src_lang,  \* tester.tokenizer.src_lang, shared by all requests
  fallback_src_lang,   \* tester.fallback_tokenizer.src_lang, shared by all requests
  worker,              \* per worker thread: the frames of the request it serves
  db,                  \* the PostgreSQL database contextbridge_idioms, as committed
  txn                  \* per database connection: the transaction it runs

\* the database and its connections
database == <<db, txn>>

vars == <<tester, tokenizer_src_lang, fallback_src_lang, worker, catalogs, database>>

NoResult == [translation |-> <<>>, used_fallback |-> FALSE]
NoResponse == [status |-> 0, success |-> FALSE, target_text |-> <<>>,
               translation_type |-> "none", metadata |-> [none |-> TRUE]]

\* translate_with_context has not returned
NoMetadata == [method |-> "none"]

\* a worker that serves no request
IdleFrame ==
  [pc |-> "idle",
   \* translate_text
   text |-> <<>>, source_lang |-> "", target_lang |-> "", use_contextual |-> FALSE,
   backend_source |-> "", backend_target |-> "", response |-> NoResponse,
   \* detect_idioms: the match under validation and its pattern's canonical form
   match |-> [start |-> 0, end |-> 0], canonical_form |-> <<>>,
   \* translate_with_context
   idioms_found |-> <<>>, parts |-> <<>>, i |-> 0, translated_parts |-> <<>>,
   idiom_details |-> <<>>, metadata |-> NoMetadata,
   \* translate and fallback_translate
   caller |-> "none", t_text |-> <<>>, t_source |-> "", t_target |-> "",
   expected_script |-> "", enc_src |-> "", translation |-> <<>>, actual_script |-> "",
   fallback_translation |-> <<>>, ret |-> NoResult,
   \* history: the calls of model.generate / fallback_model.generate of this request
   calls |-> <<>>]

Init ==
  /\ tester = "None"
  /\ tokenizer_src_lang = "default"
  /\ fallback_src_lang = "default"
  /\ worker = [t \in Workers |-> IdleFrame]
  /\ detector = NoDetector
  /\ contextual_translator = NoContextualTranslator
  /\ db = NewDatabase
  /\ txn = [c \in Connections |-> IdleTxn]

(***************************************************************************)
(* playground_api: initialize_tester and the /api/translate handler        *)
(***************************************************************************)

\* initialize_tester(): tester = TranslationTester(); tester.load_model()
initialize_tester ==
  /\ tester = "None"
  /\ tester' = "loaded"
  /\ tokenizer_src_lang' = "default"
  /\ fallback_src_lang' = "default"
  /\ detector' = NewDetector
  /\ contextual_translator' = NewContextualTranslator
  /\ UNCHANGED <<worker, database>>

ErrorResponse(status) ==
  [status |-> status, success |-> FALSE, target_text |-> <<>>,
   translation_type |-> "none", metadata |-> [none |-> TRUE]]

\* the script fields translate_text adds to every successful response
ScriptInfo(translation, backend_target) ==
  [output_script |-> detect_script(translation),
   expected_script |-> get_expected_script(backend_target),
   script_correct |-> detect_script(translation) = get_expected_script(backend_target)]

\* translate_text, use_contextual false: the response to a plain translation
RegularResponse(translation, used_fallback, backend_target) ==
  [status |-> 200, success |-> TRUE, target_text |-> translation,
   translation_type |-> "regular",
   metadata |-> [used_fallback |-> used_fallback,
                 fallback_reason |-> IF used_fallback THEN "script_mismatch" ELSE "None",
                 script |-> ScriptInfo(translation, backend_target)]]

\* translate_text, use_contextual true: metadata.get('idiom_details', []) and
\* metadata.get('translation_strategy', 'direct') of what translate_with_context returned
ContextualResponse(translation, idioms_detected, idiom_details, backend_target) ==
  [status |-> 200, success |-> TRUE, target_text |-> translation,
   translation_type |-> "contextual",
   metadata |-> [idioms_detected |-> idioms_detected,
                 idiom_details |-> idiom_details,
                 translation_strategy |-> "direct",
                 script |-> ScriptInfo(translation, backend_target)]]

\* a call of TranslationTester.translate(text, source_lang, target_lang) from `caller`
CallTranslate(frame, text, source_lang, target_lang, caller) ==
  [frame EXCEPT !.pc = "translate", !.caller = caller, !.t_text = text,
                !.t_source = source_lang, !.t_target = target_lang,
                !.expected_script = "", !.enc_src = "", !.translation = <<>>,
                !.actual_script = "", !.fallback_translation = <<>>, !.ret = NoResult]

\* translate_text() as it would be without the `if tester is None` test of lines 70-74
translate_text_without_tester_test(t, req) ==
  /\ worker[t].pc = "idle"
  /\ LET text == Strip(req.text)
         backend_source == map_frontend_to_backend_lang(req.source_lang)
         backend_target == map_frontend_to_backend_lang(req.target_lang)
         frame == [worker[t] EXCEPT !.text = text, !.source_lang = req.source_lang,
                                    !.target_lang = req.target_lang,
                                    !.use_contextual = req.use_contextual]
     IN  worker' = [worker EXCEPT ![t] =
           IF text = <<>> \/ req.source_lang = "" \/ req.target_lang = ""
             THEN [frame EXCEPT !.pc = "done", !.response = ErrorResponse(400)]
           ELSE IF req.use_contextual
             THEN [frame EXCEPT !.pc = "translate_with_context",
                                !.backend_source = backend_source,
                                !.backend_target = backend_target]
           ELSE CallTranslate([frame EXCEPT !.backend_source = backend_source,
                                            !.backend_target = backend_target],
                              text, backend_source, backend_target, "handler")]
  /\ UNCHANGED <<tester, tokenizer_src_lang, fallback_src_lang, catalogs, database>>

\* translate_text(): the checks of the request, the language mapping and the dispatch
\* on use_contextual
translate_text(t, req) ==
  /\ worker[t].pc = "idle"
  /\ LET text == Strip(req.text)
         backend_source == map_frontend_to_backend_lang(req.source_lang)
         backend_target == map_frontend_to_backend_lang(req.target_lang)
         frame == [worker[t] EXCEPT !.text = text, !.source_lang = req.source_lang,
                                    !.target_lang = req.target_lang,
                                    !.use_contextual = req.use_contextual]
     IN  worker' = [worker EXCEPT ![t] =
           IF tester = "None"
             THEN [frame EXCEPT !.pc = "done", !.response = ErrorResponse(500)]
           ELSE IF text = <<>> \/ req.source_lang = "" \/ req.target_lang = ""
             THEN [frame EXCEPT !.pc = "done", !.response = ErrorResponse(400)]
           ELSE IF req.use_contextual
             THEN [frame EXCEPT !.pc = "translate_with_context",
                                !.backend_source = backend_source,
                                !.backend_target = backend_target]
           ELSE CallTranslate([frame EXCEPT !.backend_source = backend_source,
                                            !.backend_target = backend_target],
                              text, backend_source, backend_target, "handler")]
  /\ UNCHANGED <<tester, tokenizer_src_lang, fallback_src_lang, catalogs, database>>

\* translate_text, the except clause: any exception of the translation is a 500
handle_exception(t) ==
  /\ worker[t].pc = "raised"
  /\ worker' = [worker EXCEPT ![t].pc = "done", ![t].response = ErrorResponse(500)]
  /\ UNCHANGED <<tester, tokenizer_src_lang, fallback_src_lang, catalogs, database>>

\* the response is sent; the request's frames are gone
finish(t) ==
  /\ worker[t].pc = "done"
  /\ worker' = [worker EXCEPT ![t] = IdleFrame]
  /\ UNCHANGED <<tester, tokenizer_src_lang, fallback_src_lang, catalogs, database>>

\* "Hello, world!", the text of the /api/test endpoint
test_text == <<72, 101, 108, 108, 111, 44, 32, 119, 111, 114, 108, 100, 33>>

\* the body of the /api/test endpoint's answer
TestResponse(translation, used_fallback) ==
  [status |-> 200, success |-> TRUE, target_text |-> translation,
   translation_type |-> "test", metadata |-> [used_fallback |-> used_fallback]]

\* test_translation(): GET /api/test. The same `tester is None` test as translate_text,
\* then tester.translate("Hello, world!", 'eng_Latn', 'hin_Deva'); the two codes are the
\* backend codes of this request
test_translation(t) ==
  /\ worker[t].pc = "idle"
  /\ worker' = [worker EXCEPT ![t] =
       IF tester = "None"
         THEN [worker[t] EXCEPT !.pc = "done", !.response = ErrorResponse(500)]
         ELSE CallTranslate([worker[t] EXCEPT !.backend_source = "eng_Latn",
                                              !.backend_target = "hin_Deva"],
                            test_text, "eng_Latn", "hin_Deva", "test")]
  /\ UNCHANGED <<tester, tokenizer_src_lang, fallback_src_lang, catalogs, database>>

\* test_translation(): translate returned to the /api/test endpoint
return_to_test(t) ==
  /\ worker[t].pc = "return"
  /\ worker[t].caller = "test"
  /\ worker' = [worker EXCEPT
       ![t].pc = "done",
       ![t].response = TestResponse(worker[t].ret.translation, worker[t].ret.used_fallback)]
  /\ UNCHANGED <<tester, tokenizer_src_lang, fallback_src_lang, catalogs, database>>

(***************************************************************************)
(* TranslationTester.translate and fallback_translate                      *)
(***************************************************************************)

Call(model, text, src_lang, tgt_lang, part, failed) ==
  [model |-> model, text |-> text, src_lang |-> src_lang, tgt_lang |-> tgt_lang,
   part |-> part, failed |-> failed]

\* translate: the codes are normalised, the expected script looked up and the shared
\* tokenizer's src_lang set
translate(t) ==
  /\ worker[t].pc = "translate"
  /\ LET source_lang == NormalizeLang(worker[t].t_source)
         target_lang == NormalizeLang(worker[t].t_target)
     IN  /\ worker' = [worker EXCEPT ![t].pc = "tokenize",
                                     ![t].t_source = source_lang,
                                     ![t].t_target = target_lang,
                                     ![t].expected_script = get_expected_script(target_lang)]
         /\ tokenizer_src_lang' = source_lang
  /\ UNCHANGED <<tester, fallback_src_lang, catalogs, database>>

\* encoded = self.tokenizer(text, ...): the text is encoded with the src_lang the
\* shared tokenizer holds at this moment
tokenize(t) ==
  /\ worker[t].pc = "tokenize"
  /\ worker' = [worker EXCEPT ![t].pc = "generate", ![t].enc_src = tokenizer_src_lang]
  /\ UNCHANGED <<tester, tokenizer_src_lang, fallback_src_lang, catalogs, database>>

\* self.model.generate(...) and decode(...).strip(): the fine-tuned model answers
generate(t) ==
  /\ worker[t].pc = "generate"
  /\ \E output \in ModelOutputs :
       worker' = [worker EXCEPT
         ![t].pc = "validate",
         ![t].translation = output,
         ![t].calls = Append(@, Call("finetuned", worker[t].t_text, worker[t].enc_src,
                                     worker[t].t_target, worker[t].i, FALSE))]
  /\ UNCHANGED <<tester, tokenizer_src_lang, fallback_src_lang, catalogs, database>>

\* self.model.generate(...) raises
generate_raises(t) ==
  /\ worker[t].pc = "generate"
  /\ worker' = [worker EXCEPT
       ![t].pc = "raised",
       ![t].calls = Append(@, Call("finetuned", worker[t].t_text, worker[t].enc_src,
                                   worker[t].t_target, worker[t].i, TRUE))]
  /\ UNCHANGED <<tester, tokenizer_src_lang, fallback_src_lang, catalogs, database>>

\* translate: the script of the output is validated; on "fallback" fallback_translate
\* starts and sets the shared fallback tokenizer's src_lang
validate(t) ==
  /\ worker[t].pc = "validate"
  /\ LET actual_script == detect_script(worker[t].translation)
         verdict == ScriptVerdict(actual_script, worker[t].expected_script,
                                  worker[t].t_target)
     IN  IF verdict = "fallback"
           THEN /\ worker' = [worker EXCEPT ![t].pc = "fallback_tokenize",
                                            ![t].actual_script = actual_script]
                /\ fallback_src_lang' = DetectedSource(actual_script)
           ELSE /\ worker' = [worker EXCEPT
                      ![t].pc = "return",
                      ![t].actual_script = actual_script,
                      ![t].ret = [translation |-> worker[t].translation,
                                  used_fallback |-> FALSE]]
                /\ UNCHANGED fallback_src_lang
  /\ UNCHANGED <<tester, tokenizer_src_lang, catalogs, database>>

\* fallback_translate: encoded = self.fallback_tokenizer(text, ...)
fallback_tokenize(t) ==
  /\ worker[t].pc = "fallback_tokenize"
  /\ worker' = [worker EXCEPT ![t].pc = "fallback_generate",
                              ![t].enc_src = fallback_src_lang]
  /\ UNCHANGED <<tester, tokenizer_src_lang, fallback_src_lang, catalogs, database>>

\* fallback_translate: the base model answers; translate returns its output with
\* used_fallback = True
fallback_generate(t) ==
  /\ worker[t].pc = "fallback_generate"
  /\ \E output \in ModelOutputs :
       worker' = [worker EXCEPT
         ![t].pc = AfterFallback(detect_script(output), worker[t].expected_script),
         ![t].fallback_translation = output,
         ![t].ret = [translation |-> output, used_fallback |-> TRUE],
         ![t].calls = Append(@, Call("base", worker[t].translation, worker[t].enc_src,
                                     worker[t].t_target, worker[t].i, FALSE))]
  /\ UNCHANGED <<tester, tokenizer_src_lang, fallback_src_lang, catalogs, database>>

\* fallback_translate: self.fallback_model.generate(...) raises
fallback_generate_raises(t) ==
  /\ worker[t].pc = "fallback_generate"
  /\ worker' = [worker EXCEPT
       ![t].pc = "raised",
       ![t].calls = Append(@, Call("base", worker[t].translation, worker[t].enc_src,
                                   worker[t].t_target, worker[t].i, TRUE))]
  /\ UNCHANGED <<tester, tokenizer_src_lang, fallback_src_lang, catalogs, database>>

\* translate returns to translate_text (plain mode), which builds the response
return_to_handler(t) ==
  /\ worker[t].pc = "return"
  /\ worker[t].caller = "handler"
  /\ worker' = [worker EXCEPT
       ![t].pc = "done",
       ![t].response = RegularResponse(worker[t].ret.translation,
                                       worker[t].ret.used_fallback,
                                       worker[t].backend_target)]
  /\ UNCHANGED <<tester, tokenizer_src_lang, fallback_src_lang, catalogs, database>>

(***************************************************************************)
(* ContextualTranslator.translate_with_context                             *)
(***************************************************************************)

\* translate_with_context: the idioms are detected; without idioms the whole text goes
\* to translate, otherwise the sentence is split into parts
translate_with_context(t) ==
  /\ worker[t].pc = "translate_with_context"
  /\ LET idioms_found == detect_idioms(worker[t].text, worker[t].backend_source)
     IN  worker' = [worker EXCEPT ![t] =
           IF idioms_found = <<>>
             THEN CallTranslate(worker[t], worker[t].text, worker[t].backend_source,
                                worker[t].backend_target, "direct")
             ELSE [worker[t] EXCEPT
                     !.pc = "part",
                     !.idioms_found = idioms_found,
                     !.parts = split_sentence_with_idioms(worker[t].text, idioms_found),
                     !.i = 1]]
  /\ UNCHANGED <<tester, tokenizer_src_lang, fallback_src_lang, catalogs, database>>

\* no idioms: translate returned; the metadata is that of method 'direct'
return_direct(t) ==
  /\ worker[t].pc = "return"
  /\ worker[t].caller = "direct"
  /\ worker' = [worker EXCEPT
       ![t].pc = "done",
       ![t].metadata = [idioms_detected |-> 0,
                        used_fallback |-> worker[t].ret.used_fallback,
                        method |-> "direct"],
       ![t].response = ContextualResponse(worker[t].ret.translation, 0, <<>>,
                                          worker[t].backend_target)]
  /\ UNCHANGED <<tester, tokenizer_src_lang, fallback_src_lang, catalogs, database>>

\* the loop over parts, a part of type 'text': translate(part['content'], ...)
translate_text_part(t) ==
  /\ worker[t].pc = "part"
  /\ worker[t].i <= Len(worker[t].parts)
  /\ worker[t].parts[worker[t].i].type = "text"
  /\ worker' = [worker EXCEPT ![t] =
       CallTranslate(worker[t], PartSourceText(worker[t].parts[worker[t].i]),
                     worker[t].backend_source, worker[t].backend_target, "part")]
  /\ UNCHANGED <<tester, tokenizer_src_lang, fallback_src_lang, catalogs, database>>

IdiomDetail(part, idiom_trans) ==
  [original |-> part.content, canonical |-> part.canonical, translation |-> idiom_trans]

\* the loop over parts, an idiom with a predefined translation for the language pair
translate_idiom_curated(t) ==
  /\ worker[t].pc = "part"
  /\ worker[t].i <= Len(worker[t].parts)
  /\ LET part == worker[t].parts[worker[t].i]
     IN  /\ part.type = "idiom"
         /\ HasCurated(worker[t].backend_source, worker[t].backend_target, part.canonical)
         /\ LET idiom_trans == CuratedTranslation(worker[t].backend_source,
                                                  worker[t].backend_target, part.canonical)
            IN  worker' = [worker EXCEPT
                  ![t].translated_parts = Append(@, idiom_trans),
                  ![t].idiom_details = Append(@, IdiomDetail(part, idiom_trans)),
                  ![t].i = @ + 1]
  /\ UNCHANGED <<tester, tokenizer_src_lang, fallback_src_lang, catalogs, database>>

\* the loop over parts, an idiom without a predefined translation:
\* translate(canonical_idiom, ...)
translate_idiom_neural(t) ==
  /\ worker[t].pc = "part"
  /\ worker[t].i <= Len(worker[t].parts)
  /\ LET part == worker[t].parts[worker[t].i]
     IN  /\ part.type = "idiom"
         /\ ~HasCurated(worker[t].backend_source, worker[t].backend_target, part.canonical)
         /\ worker' = [worker EXCEPT ![t] =
              CallTranslate(worker[t], PartSourceText(part), worker[t].backend_source,
                            worker[t].backend_target, "part")]
  /\ UNCHANGED <<tester, tokenizer_src_lang, fallback_src_lang, catalogs, database>>

\* a dispatcher that remembers the neural translation of an idiom in idiom_translations
return_to_part_caching(t) ==
  /\ worker[t].pc = "return"
  /\ worker[t].caller = "part"
  /\ LET part == worker[t].parts[worker[t].i]
         trans == worker[t].ret.translation
     IN  /\ worker' = [worker EXCEPT
              ![t].pc = "part",
              ![t].translated_parts = Append(@, trans),
              ![t].idiom_details = IF part.type = "idiom"
                                     THEN Append(@, IdiomDetail(part, trans)) ELSE @,
              ![t].i = @ + 1]
         /\ contextual_translator' =
              IF part.type = "idiom"
                THEN [contextual_translator EXCEPT !.idiom_translations =
                        @ \cup {[src |-> worker[t].backend_source,
                                 tgt |-> worker[t].backend_target,
                                 idiom |-> part.canonical, trans |-> trans]}]
                ELSE contextual_translator
  /\ UNCHANGED <<tester, tokenizer_src_lang, fallback_src_lang, detector, database>>

\* translate returned the translation of a part (the used_fallback flag is dropped)
return_to_part(t) ==
  /\ worker[t].pc = "return"
  /\ worker[t].caller = "part"
  /\ LET part == worker[t].parts[worker[t].i]
         trans == worker[t].ret.translation
     IN  worker' = [worker EXCEPT
           ![t].pc = "part",
           ![t].translated_parts = Append(@, trans),
           ![t].idiom_details = IF part.type = "idiom"
                                  THEN Append(@, IdiomDetail(part, trans)) ELSE @,
           ![t].i = @ + 1]
  /\ UNCHANGED <<tester, tokenizer_src_lang, fallback_src_lang, catalogs, database>>

\* after the loop: the parts are joined and translate_text builds the response;
\* an IndexError of the join is an exception of the request
join_parts(t) ==
  /\ worker[t].pc = "part"
  /\ worker[t].i > Len(worker[t].parts)
  /\ LET joined == _join_parts_intelligently(worker[t].translated_parts,
                                             worker[t].backend_target)
     IN  worker' = [worker EXCEPT ![t] =
           IF joined.ok
             THEN [worker[t] EXCEPT
                     !.pc = "done",
                     !.metadata = [idioms_detected |-> Len(worker[t].idioms_found),
                                   idiom_details |-> worker[t].idiom_details,
                                   method |-> "contextual",
                                   parts_translated |-> Len(worker[t].parts)],
                     !.response = ContextualResponse(joined.value,
                                                     Len(worker[t].idioms_found),
                                                     worker[t].idiom_details,
                                                     worker[t].backend_target)]
             ELSE [worker[t] EXCEPT !.pc = "raised"]]
  /\ UNCHANGED <<tester, tokenizer_src_lang, fallback_src_lang, catalogs, database>>

(***************************************************************************)
(* The specifications                                                      *)
(***************************************************************************)

\* the steps of TranslationTester.translate
TranslateStep(t) ==
  \/ translate(t)
  \/ tokenize(t)
  \/ generate(t)
  \/ generate_raises(t)
  \/ validate(t)
  \/ fallback_tokenize(t)
  \/ fallback_generate(t)
  \/ fallback_generate_raises(t)

\* requests served one at a time, in plain and in contextual mode
Next ==
  \/ initialize_tester
  \/ \E t \in SequentialWorkers :
       \/ \E req \in Requests : translate_text(t, req)
       \/ test_translation(t)
       \/ TranslateStep(t)
       \/ return_to_handler(t)
       \/ return_to_test(t)
       \/ translate_with_context(t)
       \/ return_direct(t)
       \/ translate_text_part(t)
       \/ translate_idiom_curated(t)
       \/ translate_idiom_neural(t)
       \/ return_to_part(t)
       \/ join_parts(t)
       \/ handle_exception(t)
       \/ finish(t)

Spec == Init /\ [][Next]_vars

\* plain-mode requests served concurrently on the worker threads
NextConcurrent ==
  \/ initialize_tester
  \/ \E t \in Workers :
       \/ \E req \in ConcurrentRequests : translate_text(t, req)
       \/ TranslateStep(t)
       \/ return_to_handler(t)
       \/ handle_exception(t)
       \/ finish(t)

SpecConcurrent == Init /\ [][NextConcurrent]_vars

(***************************************************************************)
(* Properties                                                              *)
(***************************************************************************)

\* the calls of the external capability that one invocation of translate made: part 0
\* is the invocation for the whole text, part p >= 1 the one for parts[p]
CallsOf(t, p) == SelectSeq(worker[t].calls, LAMBDA c : c.part = p)

\* the language a script implies, as the specification states it
ImpliedLanguage(script) ==
  CASE script = "Devanagari" -> "hin_Deva"
    [] script = "Telugu" -> "tel_Telu"
    [] script = "Latin" -> "eng_Latn"
    [] OTHER -> "None"

\* the expected script of a language code, as the specification's table states it
TableScript(lang_code) ==
  IF lang_code \in DOMAIN script_map THEN script_map[lang_code] ELSE "Unknown"

\* translate has decided what it returns for the invocation in progress
Returning(t) == worker[t].pc = "return"

\* C1: one invocation of translate calls the external capability at most twice: one
\* primary call (the fine-tuned model) and at most one fallback call (the base model)
\* after it; nothing is called after the fallback call.
C1_AtMostTwoCalls ==
  \A t \in Workers : \A p \in 0..Len(worker[t].parts) :
    LET cs == CallsOf(t, p)
    IN  /\ Len(cs) <= 2
        /\ Len(cs) >= 1 => cs[1].model = "finetuned"
        /\ Len(cs) = 2 => cs[2].model = "base"

\* a plain request answered after two calls, the second output again in a script
\* (Latin) that is not the target's (Hindi)
C1_Witness ==
  /\ worker[1].pc = "done"
  /\ worker[1].caller = "handler"
  /\ worker[1].t_target = "hin_Deva"
  /\ Len(CallsOf(1, 0)) = 2
  /\ detect_script(worker[1].response.target_text) = "Latin"

\* C2: when the first output's script differs from the expected script and the
\* language the script implies exists and is not the target, translate makes exactly
\* one second call: its text is the first output, its source the implied language,
\* its target the requested target; the second output is returned with
\* used_fallback = True, whatever its script.
C2_FallbackFires ==
  \A t \in Workers :
    LET f == worker[t]
        actual == detect_script(f.translation)
        cs == CallsOf(t, f.i)
    IN  (/\ Returning(t)
         /\ actual # f.expected_script
         /\ ImpliedLanguage(actual) # "None"
         /\ ImpliedLanguage(actual) # NormalizeLang(f.backend_target))
        => /\ Len(cs) = 2
           /\ cs[2] = Call("base", f.translation, ImpliedLanguage(actual),
                           NormalizeLang(f.backend_target), f.i, FALSE)
           /\ f.ret = [translation |-> f.fallback_translation, used_fallback |-> TRUE]

\* the fallback fired for a Devanagari output when English was asked for, and the
\* second output (Telugu) is returned although its script is wrong too
C2_Witness ==
  /\ Returning(1)
  /\ worker[1].t_target = "eng_Latn"
  /\ detect_script(worker[1].translation) = "Devanagari"
  /\ worker[1].ret.used_fallback
  /\ detect_script(worker[1].ret.translation) = "Telugu"

\* C3: if the first output's script is the target's expected script, or the target has
\* no expected script (Unknown), translate returns the first output with
\* used_fallback = False and makes no second call.
C3_AcceptedOnMatchOrUnknown ==
  \A t \in Workers :
    LET f == worker[t]
        expected == TableScript(NormalizeLang(f.backend_target))
    IN  (/\ Returning(t)
         /\ \/ detect_script(f.translation) = expected
            \/ expected = "Unknown")
        => /\ f.ret = [translation |-> f.translation, used_fallback |-> FALSE]
           /\ Len(CallsOf(t, f.i)) = 1

KnownLanguage(code) ==
  code \in DOMAIN lang_mapping \/ LangLower(code) \in DOMAIN lang_map

\* C5: a request whose source or target code is neither an alias nor a recognised
\* code fails, and the external capability is never called for it.
C5_UnknownLanguageRejected ==
  \A t \in Workers :
    (/\ worker[t].pc # "idle"
     /\ \/ ~KnownLanguage(worker[t].source_lang)
        \/ ~KnownLanguage(worker[t].target_lang))
    => /\ worker[t].calls = <<>>
       /\ worker[t].pc = "done" => ~worker[t].response.success

\* the idiom part p has an entry in the curated table for the request's languages
CuratedFor(t, p) ==
  {e \in idiom_translations :
     /\ worker[t].parts[p].type = "idiom"
     /\ e.idiom = worker[t].parts[p].canonical
     /\ e.src = worker[t].backend_source
     /\ e.tgt = worker[t].backend_target}

\* C6: an idiom part whose (canonical form, source, target) is in the curated table is
\* translated to exactly the curated string, and the external capability is never
\* called for it.
C6_CuratedTakesPrecedence ==
  \A t \in Workers : \A p \in 1..Len(worker[t].parts) :
    \A e \in CuratedFor(t, p) :
      /\ CallsOf(t, p) = <<>>
      /\ p <= Len(worker[t].translated_parts) => worker[t].translated_parts[p] = e.trans
      /\ p = worker[t].i => worker[t].pc = "part"

\* the curated idiom of "It was a piece of cake" (en -> hi) is translated, after the
\* text before it went through the model
C6_Witness ==
  /\ Len(worker[1].translated_parts) = 2
  /\ CuratedFor(1, 2) # {}
  /\ worker[1].calls # <<>>

\* C7: the text the dispatcher hands to translate is the canonical form for an idiom
\* part without curated entry, and the whole content for a text part.
C7_CanonicalFormDelegated ==
  \A t \in Workers : \A k \in 1..Len(worker[t].calls) :
    LET c == worker[t].calls[k]
    IN  (c.model = "finetuned" /\ c.part >= 1)
        => LET part == worker[t].parts[c.part]
           IN  IF part.type = "idiom"
                 THEN c.text = part.canonical /\ CuratedFor(t, c.part) = {}
                 ELSE c.text = part.content

\* "Breaking the ice": the model was called with "break the ice", not with the match
C7_Witness ==
  \E k \in 1..Len(worker[1].calls) :
    LET c == worker[1].calls[k]
    IN  /\ c.part >= 1
        /\ worker[1].parts[c.part].type = "idiom"
        /\ worker[1].parts[c.part].content # worker[1].parts[c.part].canonical
        /\ c.text = worker[1].parts[c.part].canonical

\* C8: the spans of one detect_idioms pass are sorted by start and pairwise
\* non-overlapping.
C8_SpansDisjoint ==
  \A t \in Workers :
    \A a, b \in 1..Len(worker[t].idioms_found) :
      a < b => /\ worker[t].idioms_found[a].start <= worker[t].idioms_found[b].start
               /\ worker[t].idioms_found[a].end <= worker[t].idioms_found[b].start

\* C9: concurrent plain requests do not interfere: every call a request makes to the
\* fine-tuned model carries that request's own text and source language.
C9_OwnSourceLanguage ==
  \A t \in Workers : \A k \in 1..Len(worker[t].calls) :
    LET c == worker[t].calls[k]
    IN  c.model = "finetuned"
        => /\ c.text = worker[t].text
           /\ c.src_lang = NormalizeLang(worker[t].backend_source)

\* C10: in contextual mode a failed call of the external capability is local to its
\* part: the request still returns a result.
C10_FailureIsLocal ==
  \A t \in Workers :
    (/\ worker[t].pc = "done"
     /\ worker[t].use_contextual
     /\ worker[t].parts # <<>>
     /\ \E k \in 1..Len(worker[t].calls) : worker[t].calls[k].failed)
    => worker[t].response.success

(***************************************************************************)
(* The functions on their own: detect_script, split_sentence_with_idioms   *)
(* and _join_parts_intelligently, each called once on an argument of a     *)
(* bounded set.  The call uses the frame of worker 1: caller names the     *)
(* function, the arguments and the result are the fields the function has  *)
(* in a request (translation -> actual_script; text, idioms_found ->       *)
(* parts; translated_parts, backend_target -> response.target_text).       *)
(***************************************************************************)

MaxScriptLen == 3
MaxTextLen == 3
MaxSpans == 2
MaxParts == 3

\* the sequences over S of length at most n
SeqUpTo(S, n) == UNION {[1..k -> S] : k \in 0..n}

\* arguments of detect_script: a Latin letter, a Devanagari letter, vowel sign and
\* digit, a Telugu letter, vowel sign and digit, a space
ScriptChars == {97, 2325, 2366, 2407, 3093, 3134, 3175, 32}
ScriptTexts == SeqUpTo(ScriptChars, MaxScriptLen)

\* arguments of split_sentence_with_idioms: a text of letters and spaces and a list
\* of spans of it, sorted by start as detect_idioms returns them (they may overlap)
SegmentChars == {97, 32}
SegmentTexts == SeqUpTo(SegmentChars, MaxTextLen)
SpanOf(text, start, end) ==
  [idiom |-> Slice(text, start, end), start |-> start, end |-> end,
   original |-> Slice(text, start, end)]
SpansOf(text) ==
  {SpanOf(text, se[1], se[2]) :
     se \in {x \in (0..Len(text)) \X (0..Len(text)) : x[1] < x[2]}}
SpanLists(text) ==
  {spans \in SeqUpTo(SpansOf(text), MaxSpans) :
     \A a, b \in 1..Len(spans) : a < b => spans[a].start <= spans[b].start}

\* arguments of _join_parts_intelligently: translated parts, among them the empty
\* one, with letters, punctuation and spaces at their edges
JoinSegments ==
  {<<>>, <<97>>, <<46>>, <<32>>, <<97, 46>>, <<46, 97>>}
JoinParts == SeqUpTo(JoinSegments, MaxParts)
JoinTargets == {"eng_Latn", "eng", "hin_Deva", "tel_Telu"}

\* the frame of a call of function f
CallFrame(f) == [IdleFrame EXCEPT !.pc = "call", !.caller = f]

\* arguments of _validate_idiom_context: a word of a rule's list ("chocolate" for piece
\* of cake, "frozen" for break the ice, "car" for out of the blue) or none, then up to
\* MaxFill words "x", the match, up to MaxFill words "x", a word of a list or none
MaxFill == 10
ContextWords ==
  {<<>>, <<99, 104, 111, 99, 111, 108, 97, 116, 101>>, <<102, 114, 111, 122, 101, 110>>,
   <<99, 97, 114>>}
\* "spill the beans", an idiom without rule
idiom_spill_the_beans ==
  <<115, 112, 105, 108, 108, 32, 116, 104, 101, 32, 98, 101, 97, 110, 115>>
ContextIdioms ==
  {idiom_out_of_the_blue, idiom_piece_of_cake, idiom_break_the_ice, idiom_spill_the_beans}
WordList(word) == IF word = <<>> THEN <<>> ELSE <<word>>
Filler(n) == [k \in 1..n |-> <<120>>]
ContextText(before, matched, after) ==
  JoinSpace(before \o <<matched>> \o after)
ContextMatch(before, matched) ==
  LET start == IF before = <<>> THEN 0 ELSE Len(JoinSpace(before)) + 1
  IN  [start |-> start, end |-> start + Len(matched)]
ContextFrame(before, idiom, after) ==
  [CallFrame("_validate_idiom_context") EXCEPT
     !.text = ContextText(before, idiom, after),
     !.match = ContextMatch(before, idiom),
     !.canonical_form = idiom]
ContextFrames ==
  {ContextFrame(WordList(far_before) \o Filler(nb), idiom, Filler(na) \o WordList(far_after)) :
     far_before \in ContextWords, nb \in 0..MaxFill, idiom \in ContextIdioms,
     na \in 0..MaxFill, far_after \in ContextWords}


InitFunctions ==
  /\ tester = "loaded"
  /\ tokenizer_src_lang = "default"
  /\ fallback_src_lang = "default"
  /\ detector = NewDetector
  /\ contextual_translator = NewContextualTranslator
  /\ db = NewDatabase
  /\ txn = [c \in Connections |-> IdleTxn]
  /\ \E frame \in
          {[CallFrame("detect_script") EXCEPT !.translation = text] :
             text \in ScriptTexts}
          \cup
          UNION {{[CallFrame("split_sentence_with_idioms") EXCEPT
                     !.text = text, !.idioms_found = spans] :
                    spans \in SpanLists(text)} : text \in SegmentTexts}
          \cup
          {[CallFrame("_join_parts_intelligently") EXCEPT
              !.translated_parts = parts, !.backend_target = target_lang] :
             parts \in JoinParts, target_lang \in JoinTargets} :
       worker = [t \in Workers |-> IF t = 1 THEN frame ELSE IdleFrame]

\* actual_script = self.detect_script(translation)
call_detect_script ==
  /\ worker[1].pc = "call"
  /\ worker[1].caller = "detect_script"
  /\ worker' = [worker EXCEPT
       ![1].pc = "returned",
       ![1].actual_script = detect_script(worker[1].translation)]
  /\ UNCHANGED <<tester, tokenizer_src_lang, fallback_src_lang, catalogs, database>>

\* parts = self.detector.split_sentence_with_idioms(text, idioms_found)
call_split_sentence_with_idioms ==
  /\ worker[1].pc = "call"
  /\ worker[1].caller = "split_sentence_with_idioms"
  /\ worker' = [worker EXCEPT
       ![1].pc = "returned",
       ![1].parts = split_sentence_with_idioms(worker[1].text, worker[1].idioms_found)]
  /\ UNCHANGED <<tester, tokenizer_src_lang, fallback_src_lang, catalogs, database>>

\* final_translation = self._join_parts_intelligently(translated_parts, target_lang)
call_join_parts_intelligently ==
  /\ worker[1].pc = "call"
  /\ worker[1].caller = "_join_parts_intelligently"
  /\ LET joined == _join_parts_intelligently(worker[1].translated_parts,
                                             worker[1].backend_target)
     IN  worker' = [worker EXCEPT
           ![1].pc = IF joined.ok THEN "returned" ELSE "raised",
           ![1].response = [NoResponse EXCEPT !.target_text = joined.value]]
  /\ UNCHANGED <<tester, tokenizer_src_lang, fallback_src_lang, catalogs, database>>

\* detect_idioms, the body of its loop over the matches:
\* if self._validate_idiom_context(text, match, canonical_form): idioms_found.append(...)
call_validate_idiom_context ==
  /\ worker[1].pc = "call"
  /\ worker[1].caller = "_validate_idiom_context"
  /\ LET text == worker[1].text
         match == worker[1].match
         canonical_form == worker[1].canonical_form
     IN  worker' = [worker EXCEPT
           ![1].pc = "returned",
           ![1].idioms_found =
             IF _validate_idiom_context(text, match, canonical_form)
               THEN <<[idiom |-> canonical_form, start |-> match.start, end |-> match.end,
                       original |-> Slice(text, match.start, match.end)]>>
               ELSE <<>>]
  /\ UNCHANGED <<tester, tokenizer_src_lang, fallback_src_lang, catalogs, database>>

NextFunctions ==
  \/ call_detect_script
  \/ call_split_sentence_with_idioms
  \/ call_join_parts_intelligently

SpecFunctions == InitFunctions /\ [][NextFunctions]_vars

\* one validation of a match by _validate_idiom_context, on the arguments ContextFrames
InitContext ==
  /\ tester = "loaded"
  /\ tokenizer_src_lang = "default"
  /\ fallback_src_lang = "default"
  /\ detector = NewDetector
  /\ contextual_translator = NewContextualTranslator
  /\ db = NewDatabase
  /\ txn = [c \in Connections |-> IdleTxn]
  /\ \E frame \in ContextFrames :
       worker = [t \in Workers |-> IF t = 1 THEN frame ELSE IdleFrame]

NextContext == call_validate_idiom_context

SpecContext == InitContext /\ [][NextContext]_vars

\* function f has returned
Returned(f) == worker[1].pc = "returned" /\ worker[1].caller = f

(***************************************************************************)
(* Properties of contextual mode and of the language tables                *)
(***************************************************************************)

\* a contextual request that was answered with a translation
ContextualDone(t) ==
  /\ worker[t].pc = "done"
  /\ worker[t].use_contextual
  /\ worker[t].response.success

\* translate retries a first output whose script implies a language that is not the
\* target
RetryNeeded(output, target_lang) ==
  /\ ImpliedLanguage(detect_script(output)) # "None"
  /\ ImpliedLanguage(detect_script(output)) # NormalizeLang(target_lang)

\* the calls one invocation of translate makes for a segment that came out as
\* translated: one fine-tuned call, and a base call exactly when the first output
\* (the text of the base call) had to be retried
OneOrTwoCalls(cs, translated, target_lang) ==
  \/ /\ Len(cs) = 1
     /\ cs[1].model = "finetuned"
     /\ ~RetryNeeded(translated, target_lang)
  \/ /\ Len(cs) = 2
     /\ cs[1].model = "finetuned"
     /\ cs[2].model = "base"
     /\ RetryNeeded(cs[2].text, target_lang)

\* the segments of a contextual request that are not idioms of the curated table
NonCurated(t) ==
  IF worker[t].parts = <<>> THEN {0}
  ELSE {p \in 1..Len(worker[t].parts) : CuratedFor(t, p) = {}}

LanguageScript(code) ==
  CASE code \in {"eng_Latn", "eng", "english"} -> "Latin"
    [] code \in {"hin_Deva", "hin", "hindi"} -> "Devanagari"
    [] code \in {"tel_Telu", "tel", "telugu"} -> "Telugu"
    [] OTHER -> "Unknown"

\* C12: the expected script translate computes for the normalized target code of a
\* supported language is that language's script (Latin, Devanagari, Telugu).
C12_ExpectedScriptOfTarget ==
  \A t \in Workers :
    (/\ worker[t].expected_script # ""
     /\ LanguageScript(worker[t].t_target) # "Unknown")
    => worker[t].expected_script = LanguageScript(worker[t].t_target)

(***************************************************************************)
(* Properties of detect_script                                             *)
(***************************************************************************)

\* the count detect_script makes for a script
ScriptCount(script, text) ==
  CASE script = "Telugu" -> telugu_count(text)
    [] script = "Devanagari" -> hindi_count(text)
    [] script = "Latin" -> latin_count(text)

\* the scripts whose count exceeds 50% of the alphabetic total
OverHalf(text) ==
  {script \in {"Telugu", "Devanagari", "Latin"} :
     2 * ScriptCount(script, text) > alpha_total(text)}

\* C13: detect_script returns Unknown for a text without alphabetic character;
\* otherwise it returns a script exactly when that script's count exceeds 50% of the
\* alphabetic total, and Mixed exactly when no count does; at most one script
\* exceeds the threshold.
C13_MajorityScript ==
  Returned("detect_script") =>
    LET text == worker[1].translation
        result == worker[1].actual_script
    IN  IF alpha_total(text) = 0 THEN result = "Unknown"
        ELSE /\ Cardinality(OverHalf(text)) <= 1
             /\ \A script \in {"Telugu", "Devanagari", "Latin"} :
                  result = script <=> script \in OverHalf(text)
             /\ result = "Mixed" <=> OverHalf(text) = {}

\* the script whose range holds every character of a non-empty text ("None": no
\* single range does)
SingleScript(text) ==
  IF text = <<>> THEN "None"
  ELSE IF \A i \in 1..Len(text) : InTelugu(text[i]) THEN "Telugu"
  ELSE IF \A i \in 1..Len(text) : InDevanagari(text[i]) THEN "Devanagari"
  ELSE IF \A i \in 1..Len(text) : IsLatin(text[i]) THEN "Latin"
  ELSE "None"

\* C14 (as the code has it): for a text composed solely of characters of one script's
\* range, at least one of them a letter (the others may be combining marks or
\* digits), detect_script returns that script; for the empty string and for a text
\* without alphabetic character, a text of digits or marks alone included, it
\* returns Unknown.
C14_SingleScriptWithLetter ==
  Returned("detect_script") =>
    LET text == worker[1].translation
        result == worker[1].actual_script
    IN  /\ (SingleScript(text) # "None" /\ \E i \in 1..Len(text) : IsAlpha(text[i]))
           => result = SingleScript(text)
        /\ (\A i \in 1..Len(text) : ~IsAlpha(text[i])) => result = "Unknown"

\* a Telugu letter with its vowel sign is Telugu
C14_Witness ==
  /\ Returned("detect_script")
  /\ worker[1].translation = <<3093, 3134>>
  /\ worker[1].actual_script = "Telugu"

\* C14 (as stated): for every non-empty text composed solely of characters of one
\* script's range, combining marks and digits included, detect_script returns that
\* script; for a text without alphabetic character it returns Unknown.
C14_SingleScript ==
  Returned("detect_script") =>
    LET text == worker[1].translation
        result == worker[1].actual_script
    IN  /\ SingleScript(text) # "None" => result = SingleScript(text)
        /\ (SingleScript(text) = "None" /\ \A i \in 1..Len(text) : ~IsAlpha(text[i]))
           => result = "Unknown"

(***************************************************************************)
(* Properties of split_sentence_with_idioms                                *)
(***************************************************************************)

\* C15: with an empty span list split_sentence_with_idioms returns exactly one plain
\* segment whose content is the whole text, unchanged: leading and trailing
\* whitespace is kept.
C15_NoSpansWholeText ==
  (Returned("split_sentence_with_idioms") /\ worker[1].idioms_found = <<>>)
  => worker[1].parts = <<[type |-> "text", content |-> worker[1].text]>>

\* " a" without spans comes back as the one segment " a"
C15_Witness ==
  /\ Returned("split_sentence_with_idioms")
  /\ worker[1].idioms_found = <<>>
  /\ worker[1].text = <<32, 97>>
  /\ worker[1].parts[1].content = <<32, 97>>

\* C16 (as the code has it): for a text with zero idiom matches the segmentation is
\* never empty and never trimmed: it is one plain segment that holds the input as
\* given, also when the input is empty or whitespace-only.
C16_NoMatchesOneSegment ==
  (Returned("split_sentence_with_idioms") /\ worker[1].idioms_found = <<>>)
  => /\ Len(worker[1].parts) = 1
     /\ worker[1].parts[1].type = "text"
     /\ Len(worker[1].parts[1].content) = Len(worker[1].text)
     /\ Strip(worker[1].parts[1].content) = Strip(worker[1].text)
     /\ Strip(worker[1].text) = <<>> => worker[1].parts[1].content = worker[1].text

\* a text of two spaces comes back as one segment of two spaces
C16_Witness ==
  /\ Returned("split_sentence_with_idioms")
  /\ worker[1].idioms_found = <<>>
  /\ worker[1].text = <<32, 32>>
  /\ Len(worker[1].parts) = 1

\* C16 (as stated): for a text with zero idiom matches the segmentation is one plain
\* segment equal to the trimmed input when that is non-empty, and the empty sequence
\* when the input is empty or whitespace-only.
C16_NoMatchesTrimmed ==
  (Returned("split_sentence_with_idioms") /\ worker[1].idioms_found = <<>>)
  => worker[1].parts =
       IF Strip(worker[1].text) = <<>> THEN <<>>
       ELSE <<[type |-> "text", content |-> Strip(worker[1].text)]>>

\* the spans are pairwise non-overlapping (they are sorted by start)
Disjoint(spans) ==
  \A a, b \in 1..Len(spans) : a < b => spans[a].end <= spans[b].start

\* the contents of the segments, one after the other
RECURSIVE Contents(_)
Contents(parts) ==
  IF parts = <<>> THEN <<>> ELSE parts[1].content \o Contents(Tail(parts))

\* a text without its whitespace
WithoutSpace(s) == SelectSeq(s, LAMBDA c : ~IsSpace(c))

\* C17: for sorted, pairwise non-overlapping spans the segments reconstruct the text
\* up to the whitespace trimmed at segment edges: their contents, in order, are the
\* text without that whitespace, every content is a piece of the text, and a plain
\* segment between spans is trimmed and not empty.
C17_SegmentsReconstructText ==
  (Returned("split_sentence_with_idioms") /\ Disjoint(worker[1].idioms_found))
  => /\ WithoutSpace(Contents(worker[1].parts)) = WithoutSpace(worker[1].text)
     /\ \A p \in 1..Len(worker[1].parts) :
          /\ Contains(worker[1].text, worker[1].parts[p].content)
          /\ (worker[1].parts[p].type = "text" /\ worker[1].idioms_found # <<>>)
             => /\ worker[1].parts[p].content # <<>>
                /\ Strip(worker[1].parts[p].content) = worker[1].parts[p].content

\* "a a" with the span [2, 3): the text "a " before it is trimmed to "a"
C17_Witness ==
  /\ Returned("split_sentence_with_idioms")
  /\ worker[1].text = <<97, 32, 97>>
  /\ Len(worker[1].idioms_found) = 1
  /\ worker[1].idioms_found[1].start = 2
  /\ Len(worker[1].parts) = 2
  /\ worker[1].parts[1].content = <<97>>

(***************************************************************************)
(* Properties of the idiom records and of _join_parts_intelligently        *)
(***************************************************************************)

\* the indices of the idiom segments, in segment order
IdiomIndices(parts) ==
  SelectSeq([p \in 1..Len(parts) |-> p], LAMBDA p : parts[p].type = "idiom")

\* C18: after a contextual translation the response metadata holds one record per
\* idiom segment, in segment order, with the matched text, the canonical form, the
\* translation and the strategy (curated or neural-as-unit) that produced it.
C18_IdiomRecords ==
  \A t \in Workers :
    (ContextualDone(t) /\ worker[t].parts # <<>>)
    => LET details == worker[t].response.metadata.idiom_details
           idx == IdiomIndices(worker[t].parts)
       IN  /\ Len(details) = Len(idx)
           /\ \A k \in 1..Len(idx) :
                /\ details[k].original = worker[t].parts[idx[k]].content
                /\ details[k].canonical = worker[t].parts[idx[k]].canonical
                /\ details[k].translation = worker[t].translated_parts[idx[k]]
                /\ "strategy" \in DOMAIN details[k]
                /\ details[k].strategy =
                     IF CuratedFor(t, idx[k]) # {} THEN "curated" ELSE "neural-as-unit"

\* the call of _join_parts_intelligently is over
Joined == worker[1].caller = "_join_parts_intelligently" /\ worker[1].pc # "call"

\* the non-empty segments, in order
NonEmpty(parts) == SelectSeq(parts, LAMBDA part : part # <<>>)

\* C19: for a target other than English _join_parts_intelligently returns the
\* non-empty segments in their order, separated by one space each, trimmed; for the
\* empty list it returns the empty string.
C19_SpaceJoined ==
  (Joined /\ worker[1].backend_target \notin {"eng_Latn", "eng"})
  => /\ worker[1].pc = "returned"
     /\ worker[1].response.target_text
          = Strip(JoinSpace(NonEmpty(worker[1].translated_parts)))
     /\ worker[1].translated_parts = <<>> => worker[1].response.target_text = <<>>

\* "a", "", "a" for Hindi: the empty segment leaves no second space
C19_Witness ==
  /\ Joined
  /\ worker[1].backend_target = "hin_Deva"
  /\ worker[1].translated_parts = <<(<<97>>), (<<>>), (<<97>>)>>
  /\ worker[1].response.target_text = <<97, 32, 97>>

\* the join of C20: parts[i..] appended to joined, with a space exactly when the last
\* character of joined and the first character of the part are both no punctuation
\* (an empty text has neither)
RECURSIVE PunctuationAwareJoin(_, _, _)
PunctuationAwareJoin(parts, i, joined) ==
  IF i > Len(parts) THEN joined
  ELSE LET part == parts[i]
           space == /\ joined # <<>>
                    /\ part # <<>>
                    /\ joined[Len(joined)] \notin Punctuation
                    /\ part[1] \notin Punctuation
       IN  PunctuationAwareJoin(parts, i + 1,
                                IF space THEN joined \o <<32>> \o part ELSE joined \o part)

\* C20: for an English target _join_parts_intelligently puts a single space between
\* two consecutive segments exactly when the last character of the text joined so far
\* and the first character of the next segment are both outside . , ! ? ; : and
\* concatenates them without space otherwise.
C20_PunctuationAware ==
  (Joined /\ worker[1].backend_target \in {"eng_Latn", "eng"}
          /\ worker[1].translated_parts # <<>>)
  => /\ worker[1].pc = "returned"
     /\ worker[1].response.target_text
          = Strip(PunctuationAwareJoin(worker[1].translated_parts, 2,
                                       worker[1].translated_parts[1]))

(***************************************************************************)
(* database_config: add_idiom and delete_idiom on one language's table.    *)
(* Each call runs one transaction on a connection of its own, under        *)
(* PostgreSQL's default isolation level READ COMMITTED: a statement sees   *)
(* the rows committed before it started and the changes of its own         *)
(* transaction; a statement that needs a row another transaction has       *)
(* changed waits until that transaction has ended.                         *)
(***************************************************************************)

\* the ids the SERIAL sequence hands out in a run
MaxId == 2

\* arguments of add_idiom and delete_idiom
DbIdioms == {"piece of cake", "break the ice"}
DbMeanings == {"very easy", "a dessert"}
DbUsernames == {"anonymous"}
DbDeleters == {"anonymous", "guest"}

Row(id, idiom, meaning, username) ==
  [id |-> id, idiom |-> idiom, meaning |-> meaning, username |-> username]

\* UNIQUE(idiom, username)
SameKey(r, idiom, username) == r.idiom = idiom /\ r.username = username

\* INSERT ... always as a new row, as it would be without ON CONFLICT ... DO UPDATE and
\* without the unique constraint
Upsert_plain_insert(rows, id, idiom, meaning, username) ==
  Row(id, idiom, meaning, username)

\* INSERT ... ON CONFLICT (idiom, username) DO UPDATE SET meaning = EXCLUDED.meaning
\* RETURNING id: the row the statement writes; id is the sequence's next value
Upsert(rows, id, idiom, meaning, username) ==
  IF \E r \in rows : SameKey(r, idiom, username)
    THEN [(CHOOSE r \in rows : SameKey(r, idiom, username)) EXCEPT !.meaning = meaning]
    ELSE Row(id, idiom, meaning, username)

\* the rows a statement of connection c sees: the committed ones with the changes of
\* c's own transaction
Visible(c) ==
  {r \in db.rows : r \notin txn[c].deletes /\ \A w \in txn[c].writes : w.id # r.id}
    \cup txn[c].writes

\* another transaction in progress has written a row with this key or deleted one
LockedKey(c, idiom, username) ==
  \E o \in Connections \ {c} :
    \E r \in txn[o].writes \cup txn[o].deletes : SameKey(r, idiom, username)

\* another transaction in progress has updated or deleted the committed row with this id
LockedRow(c, id) ==
  \E o \in Connections \ {c} :
    \E r \in txn[o].writes \cup txn[o].deletes : r.id = id /\ \E d \in db.rows : d.id = id

\* the function has returned `outcome`: its transaction is over, its arguments and
\* locals are gone
Ended(t, outcome) ==
  [IdleTxn EXCEPT !.pc = "done", !.op = t.op, !.conflict = t.conflict, !.outcome = outcome]

\* add_idiom(language, idiom, meaning, username): the connection is open
begin_add_idiom(c, idiom, meaning, username) ==
  /\ txn[c].pc = "idle"
  /\ db.next_id <= MaxId
  /\ txn' = [txn EXCEPT ![c] = [IdleTxn EXCEPT !.pc = "insert", !.op = "add_idiom",
                                               !.idiom = idiom, !.meaning = meaning,
                                               !.username = username]]
  /\ UNCHANGED <<tester, tokenizer_src_lang, fallback_src_lang, worker, catalogs, db>>

\* add_idiom: the INSERT ... ON CONFLICT statement and idiom_id = cursor.fetchone()[0]
insert_idiom(c) ==
  /\ txn[c].pc = "insert"
  /\ ~LockedKey(c, txn[c].idiom, txn[c].username)
  /\ LET row == Upsert(db.rows, db.next_id, txn[c].idiom, txn[c].meaning, txn[c].username)
     IN  /\ txn' = [txn EXCEPT ![c].pc = "count", ![c].writes = {row},
                               ![c].conflict = (row.id # db.next_id), ![c].id = row.id]
         /\ db' = [db EXCEPT !.next_id = @ + 1]
  /\ UNCHANGED <<tester, tokenizer_src_lang, fallback_src_lang, worker, catalogs>>

\* delete_idiom(language, idiom_id, username): the connection is open
begin_delete_idiom(c, idiom_id, username) ==
  /\ txn[c].pc = "idle"
  /\ txn' = [txn EXCEPT ![c] = [IdleTxn EXCEPT !.pc = "delete", !.op = "delete_idiom",
                                               !.id = idiom_id, !.username = username]]
  /\ UNCHANGED <<tester, tokenizer_src_lang, fallback_src_lang, worker, catalogs, db>>

\* delete_idiom: DELETE FROM ... WHERE id = %s AND username = %s
delete_row(c) ==
  /\ txn[c].pc = "delete"
  /\ ~LockedRow(c, txn[c].id)
  /\ txn' = [txn EXCEPT ![c].pc = "count",
                        ![c].deletes = {r \in db.rows : r.id = txn[c].id
                                                        /\ r.username = txn[c].username}]
  /\ UNCHANGED <<tester, tokenizer_src_lang, fallback_src_lang, worker, catalogs, db>>

\* UPDATE idiom_statistics SET total_count = (SELECT COUNT(*) FROM ...): the statement
\* starts and the count is taken over the rows it sees
count_rows(c) ==
  /\ txn[c].pc = "count"
  /\ txn' = [txn EXCEPT ![c].pc = "update", ![c].count = Cardinality(Visible(c))]
  /\ UNCHANGED <<tester, tokenizer_src_lang, fallback_src_lang, worker, catalogs, db>>

\* UPDATE idiom_statistics ...: the row of the language is locked, once no other
\* transaction holds it, and gets the count the statement has taken
update_statistics(c) ==
  /\ txn[c].pc = "update"
  /\ db.stats_lock = 0
  /\ db' = [db EXCEPT !.stats_lock = c]
  /\ txn' = [txn EXCEPT ![c].pc = "commit"]
  /\ UNCHANGED <<tester, tokenizer_src_lang, fallback_src_lang, worker, catalogs>>

\* conn.commit() and the return of {'success': True, ...}
commit(c) ==
  /\ txn[c].pc = "commit"
  /\ db' = [db EXCEPT
       !.rows = {r \in @ : r \notin txn[c].deletes /\ \A w \in txn[c].writes : w.id # r.id}
                  \cup txn[c].writes,
       !.total_count = txn[c].count,
       !.stats_lock = 0]
  /\ txn' = [txn EXCEPT ![c] = Ended(txn[c], [success |-> TRUE, id |-> txn[c].id])]
  /\ UNCHANGED <<tester, tokenizer_src_lang, fallback_src_lang, worker, catalogs>>

\* except Exception: conn.rollback() and the return of {'success': False, ...}, after a
\* statement or the commit has raised
rollback(c) ==
  /\ txn[c].pc \in {"insert", "delete", "count", "update", "commit"}
  /\ db' = [db EXCEPT !.stats_lock = IF @ = c THEN 0 ELSE @]
  /\ txn' = [txn EXCEPT ![c] = Ended(txn[c], NoOutcome)]
  /\ UNCHANGED <<tester, tokenizer_src_lang, fallback_src_lang, worker, catalogs>>

\* finally: cursor.close(), conn.close()
close(c) ==
  /\ txn[c].pc = "done"
  /\ txn' = [txn EXCEPT ![c] = IdleTxn]
  /\ UNCHANGED <<tester, tokenizer_src_lang, fallback_src_lang, worker, catalogs, db>>

\* calls of add_idiom and delete_idiom, each on its connection, at the same time
NextDatabase ==
  \E c \in Connections :
    \/ \E idiom \in DbIdioms, meaning \in DbMeanings, username \in DbUsernames :
         begin_add_idiom(c, idiom, meaning, username)
    \/ insert_idiom(c)
    \/ \E idiom_id \in 1..MaxId, username \in DbDeleters :
         begin_delete_idiom(c, idiom_id, username)
    \/ delete_row(c)
    \/ count_rows(c)
    \/ update_statistics(c)
    \/ commit(c)
    \/ rollback(c)
    \/ close(c)

SpecDatabase == Init /\ [][NextDatabase]_vars

(***************************************************************************)
(* C21 .. C30                                                              *)
(***************************************************************************)

\* the request of worker t has attempted no detection, segmentation or translation step
NothingAttempted(t) ==
  /\ worker[t].calls = <<>>
  /\ worker[t].idioms_found = <<>>
  /\ worker[t].parts = <<>>
  /\ worker[t].translated_parts = <<>>
  /\ worker[t].ret = NoResult

\* C21: while the tester is not loaded, every request (POST /api/translate in plain or
\* contextual mode, GET /api/test) goes from idle straight to an error response with
\* status 500 and success false, and no detection, segmentation or translation step of
\* it is attempted
C21_UnloadedRequestFails ==
  tester = "None" =>
    \A t \in Workers :
      /\ worker[t].pc \in {"idle", "done"}
      /\ worker[t].pc = "done" =>
           /\ worker[t].response = ErrorResponse(500)
           /\ NothingAttempted(t)

\* "It was a piece of cake" in contextual mode is answered with 500 while the tester
\* is not loaded
C21_Witness ==
  /\ tester = "None"
  /\ worker[1].pc = "done"
  /\ worker[1].use_contextual
  /\ Contains(worker[1].text, <<99, 97, 107, 101>>)
  /\ worker[1].response.status = 500

\* _validate_idiom_context has returned: idioms_found holds the match iff it was accepted
Validated == Returned("_validate_idiom_context")
Accepted == worker[1].idioms_found # <<>>

\* the words of the text in the window of ContextWindow words before the match start
\* and ContextWindow words after the match end
WindowBefore ==
  LastN(Split(Slice(worker[1].text, 0, worker[1].match.start)), ContextWindow)
WindowAfter ==
  FirstN(Split(Slice(worker[1].text, worker[1].match.end, Len(worker[1].text))),
         ContextWindow)
InWindow(words) ==
  \E k \in 1..Len(WindowBefore \o WindowAfter) :
    LowerStr((WindowBefore \o WindowAfter)[k]) \in words

\* C22: a match of "piece of cake" is rejected whenever one of chocolate, vanilla,
\* birthday, wedding, frosting, batter, slice is among the 10 words before or the 10
\* words after the match, also when nothing follows the match
C22_CakeWordRejects ==
  (Validated /\ worker[1].canonical_form = idiom_piece_of_cake /\ InWindow(cake_words))
    => ~Accepted

\* the idioms _validate_idiom_context has a rule for
RuledIdioms == {idiom_out_of_the_blue, idiom_piece_of_cake, idiom_break_the_ice}

\* the validated text without the words that lie outside the window, and the match in it
NearText ==
  ContextText(WindowBefore, Slice(worker[1].text, worker[1].match.start, worker[1].match.end),
              WindowAfter)
NearMatch ==
  ContextMatch(WindowBefore, Slice(worker[1].text, worker[1].match.start, worker[1].match.end))

\* C25: a match of an idiom without rule is accepted whatever surrounds it; for an idiom
\* with a rule the verdict is the one the text gets once every word further than 10
\* words before the match start or 10 words after the match end is removed
C25_DefaultAcceptAndWindow ==
  Validated =>
    /\ worker[1].canonical_form \notin RuledIdioms => Accepted
    /\ Accepted = _validate_idiom_context(NearText, NearMatch, worker[1].canonical_form)

\* "frozen x x x x x x x x x x break the ice": "frozen" is the 11th word before the
\* match, and the match is accepted
C25_Witness ==
  /\ Validated
  /\ worker[1].canonical_form = idiom_break_the_ice
  /\ Split(worker[1].text)[1] = <<102, 114, 111, 122, 101, 110>>
  /\ Len(Split(Slice(worker[1].text, 0, worker[1].match.start))) > ContextWindow
  /\ NearText # worker[1].text
  /\ Accepted

\* C23: once the tester is loaded no step of any request, plain or contextual, changes
\* the three pattern catalogs of the detector or the curated translation table
C23_CatalogsUnchanged ==
  [][tester = "loaded" => catalogs' = catalogs]_vars

\* a contextual request with an idiom that went through the model has been answered,
\* and catalogs and table are the ones __init__ built
C23_Witness ==
  /\ worker[1].pc = "done"
  /\ worker[1].use_contextual
  /\ worker[1].idiom_details # <<>>
  /\ \E k \in 1..Len(worker[1].calls) :
       worker[1].parts[worker[1].calls[k].part].type = "idiom"
  /\ detector = NewDetector
  /\ contextual_translator = NewContextualTranslator

\* the cursor of split_sentence_with_idioms before span k + 1: 0, then the end of span k
Cursor(spans, k) == IF k = 0 THEN 0 ELSE spans[k].end

\* the trimmed text between the cursor and span k, and after the last span
Gap(text, spans, k) == Strip(Slice(text, Cursor(spans, k - 1), spans[k].start))
Rest(text, spans) == Strip(Slice(text, Cursor(spans, Len(spans)), Len(text)))

\* C24: for a non-empty list of sorted, non-overlapping spans the segmentation has one
\* idiom segment per span, in span order, with the span's matched text as content and
\* its canonical form; before the idiom segment of span k there is a plain segment
\* exactly when the trimmed text between the cursor and the span is not empty, and it
\* holds that trimmed text; likewise after the last span; nothing else is emitted, so no
\* plain segment is empty or has whitespace at an edge; the cursor never decreases
C24_OneSegmentPerSpan ==
  (/\ Returned("split_sentence_with_idioms")
   /\ worker[1].idioms_found # <<>>
   /\ Disjoint(worker[1].idioms_found))
  => LET text == worker[1].text
         spans == worker[1].idioms_found
         parts == worker[1].parts
         at == IdiomIndices(parts)
         n == Len(spans)
         At(k) == IF k = 0 THEN 0 ELSE at[k]
     IN  /\ Len(at) = n
         /\ \A k \in 1..n :
              /\ parts[at[k]] = [type |-> "idiom", content |-> spans[k].original,
                                 canonical |-> spans[k].idiom]
              /\ IF Gap(text, spans, k) = <<>>
                   THEN at[k] = At(k - 1) + 1
                   ELSE /\ at[k] = At(k - 1) + 2
                        /\ parts[at[k] - 1] = [type |-> "text",
                                               content |-> Gap(text, spans, k)]
              /\ Cursor(spans, k - 1) <= Cursor(spans, k)
         /\ IF Rest(text, spans) = <<>>
              THEN Len(parts) = at[n]
              ELSE /\ Len(parts) = at[n] + 1
                   /\ parts[Len(parts)] = [type |-> "text", content |-> Rest(text, spans)]
         /\ \A p \in 1..Len(parts) :
              parts[p].type = "text" =>
                parts[p].content # <<>> /\ Strip(parts[p].content) = parts[p].content

\* "a a" with the spans [0, 1) and [2, 3): two idiom segments, and no segment for the
\* space between them
C24_Witness ==
  /\ Returned("split_sentence_with_idioms")
  /\ worker[1].text = <<97, 32, 97>>
  /\ Len(worker[1].idioms_found) = 2
  /\ worker[1].idioms_found[1].end = 1
  /\ worker[1].idioms_found[2].start = 2
  /\ Len(worker[1].parts) = 2

\* the curated entries for idiom part p of worker t's request under the canonical codes
\* of the request's languages
CuratedForCanonical(t, p) ==
  {e \in idiom_translations :
     /\ worker[t].parts[p].type = "idiom"
     /\ e.idiom = worker[t].parts[p].canonical
     /\ e.src = NormalizeLang(worker[t].backend_source)
     /\ e.tgt = NormalizeLang(worker[t].backend_target)}

\* C26: contextual translation treats an alias code like its canonical code: an idiom
\* part with a curated entry for the canonical codes of the request's languages (eng is
\* eng_Latn, hin is hin_Deva) gets exactly the curated string, without a call of the
\* external capability
C26_AliasLikeCanonical ==
  \A t \in Workers : \A p \in 1..Len(worker[t].parts) :
    \A e \in CuratedForCanonical(t, p) :
      /\ CallsOf(t, p) = <<>>
      /\ p <= Len(worker[t].translated_parts) => worker[t].translated_parts[p] = e.trans

\* C27: _join_parts_intelligently is total: whatever the target language and the list
\* of translated segments, empty segments after the first included, the call returns a
\* text and raises nothing
C27_JoinTotal ==
  \A parts \in JoinParts, target_lang \in JoinTargets :
    (/\ worker[1].caller = "_join_parts_intelligently"
     /\ worker[1].translated_parts = parts
     /\ worker[1].backend_target = target_lang)
    => worker[1].pc \in {"call", "returned"}

\* the language codes detect_idioms has a catalog for
CatalogLanguages == {"eng_Latn", "eng", "tel_Telu", "tel", "hin_Deva", "hin"}

\* C28: a contextual request in whose text no idiom is detected is translated by one
\* call of translate on the whole text as translate_with_context received it (one call
\* of the fine-tuned model, on that text, then at most one of the fallback model, and
\* none for a part), and
\* the metadata translate_with_context returns has idioms_detected = 0, method 'direct'
\* and no idiom records, as has the response; for a source language other than English,
\* Telugu and Hindi no idiom is ever detected
C28_NoIdiomDirect ==
  \A t \in Workers :
    /\ worker[t].backend_source \notin CatalogLanguages => worker[t].idioms_found = <<>>
    /\ (ContextualDone(t) /\ worker[t].idioms_found = <<>>)
       => /\ worker[t].parts = <<>>
          /\ worker[t].translated_parts = <<>>
          /\ \A k \in 1..Len(worker[t].calls) : worker[t].calls[k].part = 0
          /\ Len(SelectSeq(worker[t].calls, LAMBDA c : c.model = "finetuned")) = 1
          /\ Len(SelectSeq(worker[t].calls, LAMBDA c : c.model = "base")) <= 1
          /\ worker[t].calls[1].model = "finetuned"
          /\ worker[t].calls[1].text = worker[t].text
          /\ worker[t].metadata.idioms_detected = 0
          /\ worker[t].metadata.method = "direct"
          /\ "idiom_details" \notin DOMAIN worker[t].metadata
          /\ worker[t].response.metadata.idioms_detected = 0
          /\ worker[t].response.metadata.idiom_details = <<>>

\* "Breaking the ice" from German: no catalog, no idiom, one direct translation
C28_Witness ==
  /\ ContextualDone(1)
  /\ worker[1].backend_source = "deu_Latn"
  /\ Contains(worker[1].text, <<105, 99, 101>>)
  /\ worker[1].idioms_found = <<>>
  /\ Len(worker[1].calls) >= 1
  /\ worker[1].metadata.method = "direct"

\* no transaction is in progress
Quiescent == \A c \in Connections : txn[c].pc \in {"idle", "done"}

\* C29: once every add_idiom and delete_idiom transaction has ended, the stored
\* total_count of the language equals the number of rows of its idiom table
C29_CountMatchesRows ==
  Quiescent => db.total_count = Cardinality(db.rows)

\* the rows with the key of connection c's add_idiom, before and after a step
KeyRows(rows, c) == {r \in rows : SameKey(r, txn[c].idiom, txn[c].username)}

\* connection c's add_idiom commits, or fails, in this step
AddCommits(c) ==
  /\ txn[c].op = "add_idiom"
  /\ txn[c].pc = "commit"
  /\ txn'[c].pc = "done"
  /\ txn'[c].outcome.success
AddFails(c) ==
  /\ txn[c].op = "add_idiom"
  /\ txn[c].pc \notin {"idle", "done"}
  /\ txn'[c].pc = "done"
  /\ ~txn'[c].outcome.success

\* C30: add_idiom is an upsert on (idiom, username): when it commits, the table holds
\* exactly one row with that pair, with the meaning just written, and the id returned
\* is that row's id; if a row with the pair existed, the number of rows is unchanged
\* and the id is that of the existing row, otherwise there is one row more; the rows
\* of other pairs are untouched.  An add_idiom that fails leaves the table and
\* total_count as they were
C30_AddIsUpsert ==
  [][\A c \in Connections :
       /\ AddCommits(c) =>
            /\ Cardinality(KeyRows(db'.rows, c)) = 1
            /\ \A r \in KeyRows(db'.rows, c) :
                 r.meaning = txn[c].meaning /\ r.id = txn'[c].outcome.id
            /\ IF KeyRows(db.rows, c) # {}
                 THEN /\ Cardinality(db'.rows) = Cardinality(db.rows)
                      /\ \A r \in KeyRows(db.rows, c) : r.id = txn'[c].outcome.id
                 ELSE Cardinality(db'.rows) = Cardinality(db.rows) + 1
            /\ db'.rows \ KeyRows(db'.rows, c) = db.rows \ KeyRows(db.rows, c)
       /\ AddFails(c) => db'.rows = db.rows /\ db'.total_count = db.total_count]_vars

\* two add_idiom calls have used ids 1 and 2 of the sequence, the second for a pair
\* that existed: it succeeded with the existing id, and the table has one row, with
\* the second meaning
C30_Witness ==
  /\ db.next_id = 3
  /\ \E c \in Connections :
       /\ txn[c].pc = "done"
       /\ txn[c].op = "add_idiom"
       /\ txn[c].conflict
       /\ txn[c].outcome = [success |-> TRUE, id |-> 1]
  /\ db.rows = {Row(1, "piece of cake", "a dessert", "anonymous")}


=============================================================================
